---------------------------- MODULE Spec2Model ----------------------------
(***************************************************************************)
(* rclaw: the recurring task scheduler (src/src/task_scheduler.rs), the    *)
(* task table it reads and writes (src/src/db.rs) and the controller of    *)
(* the singleton agent container (src/src/container.rs).                   *)
(*                                                                         *)
(* Time is counted in whole seconds.  Strings that the code inspects       *)
(* character by character (schedule strings) are sequences of one          *)
(* character strings.                                                      *)
(***************************************************************************)
EXTENDS Integers, Sequences, FiniteSets, TLC

VARIABLES
    \* ---- the world the scheduler lives in
    clock,            \* Utc::now(), in seconds
    store,            \* the tasks table: id -> Task row
    \* ---- TaskScheduler::run / check_and_run_tasks
    spc,              \* position of the scheduler task
    active_tasks,     \* rest of the Vec<Task> the for loop iterates
    task,             \* the loop variable `mut task`
    parsed_schedule,  \* TaskSchedule of the current task
    now_utc,          \* Utc::now() taken at line 91
    calculated_next,  \* the catch-up loop variable
    next_occurrence,  \* Option<DateTime>
    tick_result,      \* what the last check_and_run_tasks returned
    \* ---- history of the current tick (observers, not read by the code)
    snapshot,         \* ids returned by get_active_tasks for this tick
    evaluated,        \* ids whose schedule parsed and whose due time was computed
    skipped,          \* ids skipped because the schedule did not parse
    written,          \* ids written back to the store in this tick
    invoked,          \* ids for which run_container_agent was called in this tick
    runs,             \* the agent runs that returned in this tick: id, outcome, now_utc
    fired,            \* ids for which run_container_agent was ever called
    \* ---- the docker daemon and the singleton container
    status,           \* .State.Status of rclaw-agent-singleton, "absent" when there is none
    health,           \* .State.Health.Status, "none" when no health check
    containers,       \* the names of the containers the daemon holds
    \* ---- one call of run_container_agent
    cpc,              \* position in run_container_agent
    input,            \* the ContainerInput the caller passed
    addressed,        \* the container names the docker commands of the calls named
    spawn_failed,     \* a docker command of this call could not be spawned (observer)
    needs_wait,       \* the local of that name
    elapsed,          \* start.elapsed() of wait_for_container_ready, in ms
    result,           \* what run_container_agent returned
    starts,           \* docker start commands issued by this call
    creates,          \* docker run commands issued by this call
    polls,            \* docker inspect polls issued by this call
    execs,            \* docker exec sessions opened by this call
    sent,             \* requests written to an exec session by this call
    observed_ready,   \* the call has seen the container Ready
    entry_state,      \* what the first inspect of this call found
    timed_out,        \* wait_for_container_ready hit its timeout in this call
    \* ---- the end of an exchange: run_container_agent from line 173 on
    opc,              \* position in that part of run_container_agent
    exit_success,     \* status.success() of the docker exec child
    stderr,           \* the lines of what was read from the child's stderr
    stdout,           \* the lines of the child's stdout that are still to be decoded
    consumed,         \* the lines already decoded (observer)
    final_result,     \* the local of that name
    last_type,        \* the local of that name
    output,           \* the ContainerOutput returned, NoOutput before
    chat_text,        \* what the chat view draws for the transcript returned
    \* ---- the interactive path: TUI, worker and their two channels
    requests,         \* the channel tx_app -> rx_worker: the inputs sent
    responses,        \* the channel tx_worker -> rx_app: the responses sent
    calls,            \* per request, where its run_container_agent call is
    answers,          \* per request, the responses sent for it (observer)
    upc,              \* position of the TUI loop
    is_loading,       \* App::is_loading
    next_req,         \* the number of the next input the user submits
    shown,            \* the responses pushed to App::messages
    \* ---- one exchange over the pipes of docker exec: lines 149-173
    xpc,              \* position of run_container_agent in the exchange
    request_left,     \* bytes of input_json that write_all has still to write
    stdin_closed,     \* the ChildStdin taken at line 158 has been dropped
    stdin_pipe,       \* bytes in the pipe to the child's stdin
    stdout_pipe,      \* bytes in the pipe from the child's stdout
    stderr_pipe,      \* bytes in the pipe from the child's stderr
    child,            \* the process at the other end of the three pipes
    stdout_read,      \* bytes read_to_string has taken from stdout (observer)
    stderr_read,      \* bytes read_to_string has taken from stderr (observer)
    xlog,             \* the steps of the exchange that are over, in order (observer)
    \* ---- calls of run_container_agent that run at the same time
    invocations       \* per call: where it is and what it has done

schedVars == <<spc, active_tasks, task, parsed_schedule, now_utc, calculated_next,
               next_occurrence, tick_result, snapshot, evaluated,
               skipped, written, invoked, runs, fired>>
worldVars == <<clock, store>>
dockerVars == <<status, health, containers>>
callVars == <<cpc, needs_wait, elapsed, result, starts, creates, polls, execs, sent,
              observed_ready, entry_state, timed_out, input, addressed,
              spawn_failed>>
outVars == <<opc, exit_success, stderr, stdout, consumed, final_result, last_type, output,
             chat_text>>
appVars == <<requests, responses, calls, answers, upc, is_loading, next_req, shown>>
pipeVars == <<xpc, request_left, stdin_closed, stdin_pipe, stdout_pipe, stderr_pipe, child,
              stdout_read, stderr_read, xlog>>
vars == <<worldVars, schedVars, dockerVars, callVars, outVars, appVars, pipeVars, invocations>>

\* a step of the scheduler leaves the rest of the program as it is
callIdle == UNCHANGED <<dockerVars, callVars, outVars, appVars, pipeVars, invocations>>

\* a step of the controller leaves the rest of the program as it is
schedIdle == UNCHANGED <<worldVars, schedVars, outVars, appVars, pipeVars, invocations>>

----------------------------------------------------------------------------
(* Option<T> *)
None == <<>>
Some(x) == <<x>>
IsSome(o) == Len(o) = 1
Unwrap(o) == o[1]

----------------------------------------------------------------------------
(* Bounds of the model *)
MaxTime == 3          \* the clock runs from 0 to MaxTime

----------------------------------------------------------------------------
(* Characters and tokens of a schedule string *)
Digits == <<"0", "1", "2", "3", "4", "5", "6", "7", "8", "9">>
is_ascii_digit(c) == \E i \in 1..10 : Digits[i] = c
DigitValue(c) == (CHOOSE i \in 1..10 : Digits[i] = c) - 1
is_whitespace(c) == c \in {" ", "\t", "\n"}

starts_with(s, p) == Len(s) >= Len(p) /\ SubSeq(s, 1, Len(p)) = p

\* str::split_whitespace: the maximal runs of non-whitespace characters
RECURSIVE SplitFrom(_, _, _)
SplitFrom(s, i, cur) ==
    IF i > Len(s)
    THEN IF cur = <<>> THEN <<>> ELSE <<cur>>
    ELSE IF is_whitespace(s[i])
         THEN IF cur = <<>> THEN SplitFrom(s, i + 1, <<>>)
                            ELSE <<cur>> \o SplitFrom(s, i + 1, <<>>)
         ELSE SplitFrom(s, i + 1, Append(cur, s[i]))
split_whitespace(s) == SplitFrom(s, 1, <<>>)

\* str::trim_end_matches(|c| !c.is_ascii_digit())
RECURSIVE trim_end_non_digits(_)
trim_end_non_digits(s) ==
    IF s = <<>> \/ is_ascii_digit(s[Len(s)]) THEN s
    ELSE trim_end_non_digits(SubSeq(s, 1, Len(s) - 1))

\* str::trim_start_matches(|c| c.is_ascii_digit())
RECURSIVE trim_start_digits(_)
trim_start_digits(s) ==
    IF s = <<>> \/ ~is_ascii_digit(s[1]) THEN s
    ELSE trim_start_digits(Tail(s))

AllDigits(s) == \A i \in 1..Len(s) : is_ascii_digit(s[i])

RECURSIVE StripZeros(_)
StripZeros(s) == IF Len(s) > 1 /\ s[1] = "0" THEN StripZeros(Tail(s)) ELSE s

\* a <= b for canonical (no leading zero) digit strings of any length
RECURSIVE DigitsLeq(_, _)
DigitsLeq(a, b) ==
    IF Len(a) # Len(b) THEN Len(a) < Len(b)
    ELSE IF a = <<>> THEN TRUE
    ELSE IF a[1] # b[1] THEN DigitValue(a[1]) < DigitValue(b[1])
    ELSE DigitsLeq(Tail(a), Tail(b))

RECURSIVE DigitsValue(_)
DigitsValue(s) ==
    IF s = <<>> THEN 0 ELSE 10 * DigitsValue(SubSeq(s, 1, Len(s) - 1)) + DigitValue(s[Len(s)])

\* i64::MAX = 9223372036854775807
I64MaxDigits == <<"9","2","2","3","3","7","2","0","3","6","8","5","4","7","7","5","8","0","7">>

\* a parse that takes any run of digits, whatever its value
parse_i64_unchecked(s) ==
    LET signed == s # <<>> /\ s[1] \in {"+", "-"}
        body   == IF signed THEN Tail(s) ELSE s
        canon  == StripZeros(body)
    IN  IF body = <<>> \/ ~AllDigits(body) THEN None
        ELSE Some([neg |-> signed /\ s[1] = "-" /\ canon # <<"0">>, digits |-> canon])

\* str::parse::<i64>: an optional sign, then at least one digit, nothing else,
\* and a value that fits.  The result is the sign and the canonical digits.
parse_i64(s) ==
    LET signed == s # <<>> /\ s[1] \in {"+", "-"}
        body   == IF signed THEN Tail(s) ELSE s
        canon  == StripZeros(body)
    IN  IF body = <<>> \/ ~AllDigits(body) THEN None
        ELSE IF ~DigitsLeq(canon, I64MaxDigits)
                /\ ~(signed /\ s[1] = "-" /\ canon = <<"9","2","2","3","3","7","2","0","3","6","8","5","4","7","7","5","8","0","8">>)
             THEN None
        ELSE Some([neg |-> signed /\ s[1] = "-" /\ canon # <<"0">>, digits |-> canon])

\* chrono::Duration::try_seconds and friends: None when amount * unit does not
\* fit in a TimeDelta, whose largest value is i64::MAX milliseconds.
SecondsPerUnit(u) ==
    CASE u = <<"s">> -> 1
      [] u = <<"m">> -> 60
      [] u = <<"h">> -> 3600
      [] u = <<"d">> -> 86400

\* floor((i64::MAX / 1000) / SecondsPerUnit(u)) as digits
MaxAmountDigits(u) ==
    CASE u = <<"s">> -> <<"9","2","2","3","3","7","2","0","3","6","8","5","4","7","7","5">>
      [] u = <<"m">> -> <<"1","5","3","7","2","2","8","6","7","2","8","0","9","1","2">>
      [] u = <<"h">> -> <<"2","5","6","2","0","4","7","7","8","8","0","1","5">>
      [] u = <<"d">> -> <<"1","0","6","7","5","1","9","9","1","1","6","7">>

try_duration(amount, u) ==
    IF DigitsLeq(amount.digits, MaxAmountDigits(u))
    THEN Some((IF amount.neg THEN -1 ELSE 1) * DigitsValue(amount.digits) * SecondsPerUnit(u))
    ELSE None

unwrap_or_zero(o) == IF IsSome(o) THEN Unwrap(o) ELSE 0

Units == {<<"s">>, <<"m">>, <<"h">>, <<"d">>}


----------------------------------------------------------------------------
(* Timestamps as the tasks table holds them: text.  A text is either an    *)
(* RFC 3339 rendering of an instant or something that does not parse.      *)
to_rfc3339(t) == [valid |-> TRUE, t |-> t]
Unreadable == [valid |-> FALSE, t |-> 0]
parse_from_rfc3339(s) == IF s.valid THEN Some(s.t) ELSE None

\* task.last_run.as_ref().and_then(|s| parse_from_rfc3339(s).ok())
ReadTimestamp(field) == IF IsSome(field) THEN parse_from_rfc3339(Unwrap(field)) ELSE None

----------------------------------------------------------------------------
(* The schedule strings of the model *)
Every0s == <<"e","v","e","r","y"," ","0","s">>
Every1s == <<"e","v","e","r","y"," ","1","s">>
Every2s == <<"e","v","e","r","y"," ","2","s">>
EveryXq == <<"e","v","e","r","y"," ","X","q">>
EveryI64MaxS == <<"e","v","e","r","y"," ">> \o I64MaxDigits \o <<"s">>
CronEven == <<"*","/","2"," ","*"," ","*"," ","*"," ","*"," ","*">>
CronYear2000 == <<"0"," ","0"," ","0"," ","1"," ","1"," ","*"," ","2","0","0","0">>
Schedules == {Every0s, Every1s, Every2s, EveryXq, EveryI64MaxS, CronEven, CronYear2000}

(* cron::Schedule.  Of the expressions of the model the library accepts    *)
(* CronEven (every even second) and CronYear2000 (no occurrence after the  *)
(* year 2000, the clock of the model being later than that).               *)
cron_from_str(s) == IF s \in {CronEven, CronYear2000} THEN Some(s) ELSE None
CronMatches(expr, t) == expr = CronEven /\ t % 2 = 0

\* an iterator that starts at now instead of after it
cron_from_now(expr, now) ==
    LET later == {t \in now..(now + 2) : CronMatches(expr, t)}
    IN  IF later = {} THEN None
        ELSE Some(CHOOSE t \in later : \A u \in later : t <= u)

\* schedule.after(&now).next(): the first occurrence strictly after now
cron_after(expr, now) ==
    LET later == {t \in (now + 1)..(now + 2) : CronMatches(expr, t)}
    IN  IF later = {} THEN None
        ELSE Some(CHOOSE t \in later : \A u \in later : t <= u)

Invalid == [kind |-> "invalid"]
Every(d) == [kind |-> "every", duration |-> d]
Cron(e) == [kind |-> "cron", expr |-> e]

EveryPrefix == <<"e","v","e","r","y"," ">>

\* lines 42-89: the TaskSchedule of a schedule string, or Invalid (`continue`)
parse_schedule(schedule) ==
    IF starts_with(schedule, EveryPrefix)
    THEN LET parts == split_whitespace(schedule)
         IN  IF Len(parts) = 2
             THEN LET amount_str == trim_end_non_digits(parts[2])
                      unit_str   == trim_start_digits(parts[2])
                      amount     == parse_i64(amount_str)
                  IN  IF IsSome(amount)
                      THEN IF unit_str \in Units
                           THEN Every(unwrap_or_zero(try_duration(Unwrap(amount), unit_str)))
                           ELSE Invalid
                      ELSE Invalid
             ELSE Invalid
    ELSE LET c == cron_from_str(schedule)
         IN  IF IsSome(c) THEN Cron(Unwrap(c)) ELSE Invalid

\* the TaskSchedule of every schedule string of the model
ScheduleOf == [s \in Schedules |-> parse_schedule(s)]

----------------------------------------------------------------------------
(* The tasks table *)
TaskIds == {"t1", "t2"}
NoTask == [id |-> "", group_folder |-> "", prompt |-> "", schedule |-> <<>>,
           last_run |-> None, next_run |-> None, status |-> ""]

InitialRows(i) ==
    {[id |-> i, group_folder |-> "main", prompt |-> "p", schedule |-> s,
      last_run |-> l, next_run |-> None, status |-> st] :
        s \in Schedules, l \in {None, Some(to_rfc3339(0))},
        st \in IF i = "t1" THEN {"active"} ELSE {"active", "paused"}}

\* Db::get_active_tasks: the rows whose status is active
ActiveIds == {i \in TaskIds : store[i].status = "active"}

\* the orders in which a SELECT without ORDER BY may return a set of rows
RECURSIVE Orders(_)
Orders(S) ==
    IF S = {} THEN {<<>>}
    ELSE UNION {{<<x>> \o o : o \in Orders(S \ {x})} : x \in S}

\* Db::add_task: INSERT OR REPLACE of the whole row
add_task(row) == [store EXCEPT ![row.id] = row]

\* a row rebuilt without the prompt of the task
task_to_update_without_prompt(t) ==
    [id |-> t.id, group_folder |-> t.group_folder, prompt |-> "",
     schedule |-> t.schedule, last_run |-> t.last_run, next_run |-> t.next_run,
     status |-> t.status]

\* lines 127-135 and 191-199: the row the scheduler writes is rebuilt field by field
task_to_update(t) ==
    [id |-> t.id, group_folder |-> t.group_folder, prompt |-> t.prompt,
     schedule |-> t.schedule, last_run |-> t.last_run, next_run |-> t.next_run,
     status |-> t.status]


----------------------------------------------------------------------------
(* TaskScheduler::run and check_and_run_tasks *)

\* what tokio::task::spawn_blocking(run_container_agent).await can give:
\* Ok(Ok(output)) with status success or error, Ok(Err(e)), Err(join error)
Outcomes == {"success", "failure", "transport_error", "join_error"}
FailedOutcomes == Outcomes \ {"success"}

\* a tick loop that an error of a tick ends (`?` or `break` for the logging)
LoopAfterErrorStops(r) == IF r = "err" THEN "stopped" ELSE "idle"

\* lines 29-35: where `run` is after check_and_run_tasks returned r: an Err is
\* logged, and either way the loop goes back to interval.tick().await
LoopAfter(r) == "idle"

\* lines 30-39: a tick is delivered and the active tasks are read
Tick ==
    /\ spc = "idle"
    /\ \E order \in Orders(ActiveIds) :
          active_tasks' = [k \in 1..Len(order) |-> store[order[k]]]
    /\ spc' = "loop"
    /\ tick_result' = "running"
    /\ runs' = {}
    /\ snapshot' = ActiveIds
    /\ evaluated' = {}
    /\ skipped' = {}
    /\ written' = {}
    /\ invoked' = {}
    /\ UNCHANGED <<task, parsed_schedule, now_utc, calculated_next, next_occurrence, fired>>
    /\ UNCHANGED worldVars
    /\ callIdle

\* line 39: get_active_tasks fails, `?` returns the error to run, which logs it
TickReadFails ==
    /\ spc = "idle"
    /\ spc' = LoopAfter("err")
    /\ tick_result' = "err"
    /\ runs' = {}
    /\ snapshot' = {}
    /\ evaluated' = {}
    /\ skipped' = {}
    /\ written' = {}
    /\ invoked' = {}
    /\ UNCHANGED <<active_tasks, task, parsed_schedule, now_utc, calculated_next,
                   next_occurrence, fired>>
    /\ UNCHANGED worldVars
    /\ callIdle

\* line 210: the for loop is over
TickEnds ==
    /\ spc = "loop"
    /\ active_tasks = <<>>
    /\ spc' = LoopAfter("ok")
    /\ tick_result' = "ok"
    /\ UNCHANGED <<active_tasks, task, parsed_schedule, now_utc, calculated_next,
                   next_occurrence, runs, snapshot, evaluated, skipped, written,
                   invoked, fired>>
    /\ UNCHANGED worldVars
    /\ callIdle

\* a parse failure that leaves the for loop (`break` for `continue`)
SkipInvalidBreaks ==
    /\ spc = "loop"
    /\ active_tasks # <<>>
    /\ ScheduleOf[Head(active_tasks).schedule] = Invalid
    /\ active_tasks' = <<>>
    /\ skipped' = skipped \cup {Head(active_tasks).id}
    /\ UNCHANGED <<spc, task, parsed_schedule, now_utc, calculated_next, next_occurrence,
                   tick_result, runs, snapshot, evaluated, written, invoked, fired>>
    /\ UNCHANGED worldVars
    /\ callIdle

\* lines 63-88: the schedule of the next task does not parse: log and continue
SkipInvalid ==
    /\ spc = "loop"
    /\ active_tasks # <<>>
    /\ ScheduleOf[Head(active_tasks).schedule] = Invalid
    /\ active_tasks' = Tail(active_tasks)
    /\ skipped' = skipped \cup {Head(active_tasks).id}
    /\ UNCHANGED <<spc, task, parsed_schedule, now_utc, calculated_next, next_occurrence,
                   tick_result, runs, snapshot, evaluated, written, invoked, fired>>
    /\ UNCHANGED worldVars
    /\ callIdle

\* lines 41-110 up to the catch-up loop: the schedule parses, now is read, and
\* the due time is computed, or the catch-up loop is entered
BeginEvaluation ==
    /\ spc = "loop"
    /\ active_tasks # <<>>
    /\ LET t == Head(active_tasks)
           p == ScheduleOf[t.schedule]
           last_run_dt == ReadTimestamp(t.last_run)
       IN  /\ p # Invalid
           /\ task' = t
           /\ active_tasks' = Tail(active_tasks)
           /\ parsed_schedule' = p
           /\ now_utc' = clock
           /\ evaluated' = evaluated \cup {t.id}
           /\ IF p.kind = "cron"
              THEN /\ next_occurrence' = cron_after(p.expr, clock)
                   /\ spc' = "refresh"
                   /\ UNCHANGED calculated_next
              ELSE IF IsSome(last_run_dt)
                   THEN /\ calculated_next' = Unwrap(last_run_dt) + p.duration
                        /\ spc' = "catchup_test"
                        /\ UNCHANGED next_occurrence
                   ELSE /\ next_occurrence' = Some(clock + p.duration)
                        /\ spc' = "refresh"
                        /\ UNCHANGED calculated_next
    /\ UNCHANGED <<tick_result, snapshot, skipped, written, invoked, runs, fired>>
    /\ UNCHANGED worldVars
    /\ callIdle

\* the catch-up loop stopping one comparison early (`<` for `<=`)
CatchUpContinuesStrict(next, now) == next < now

\* line 103: the condition of the catch-up loop
CatchUpContinues(next, now) == next <= now

\* line 103: the test of `while calculated_next <= now_utc`
CatchUpTest ==
    /\ spc = "catchup_test"
    /\ IF CatchUpContinues(calculated_next, now_utc)
       THEN /\ spc' = "catchup_body"
            /\ UNCHANGED next_occurrence
       ELSE /\ next_occurrence' = Some(calculated_next)
            /\ spc' = "refresh"
    /\ UNCHANGED <<active_tasks, task, parsed_schedule, now_utc, calculated_next,
                   tick_result, runs, snapshot, evaluated, skipped, written,
                   invoked, fired>>
    /\ UNCHANGED worldVars
    /\ callIdle

\* line 104: the body of the catch-up loop
CatchUpBody ==
    /\ spc = "catchup_body"
    /\ calculated_next' = calculated_next + parsed_schedule.duration
    /\ spc' = "catchup_test"
    /\ UNCHANGED <<active_tasks, task, parsed_schedule, now_utc, next_occurrence,
                   tick_result, runs, snapshot, evaluated, skipped, written,
                   invoked, fired>>
    /\ UNCHANGED worldVars
    /\ callIdle

\* a refresh whenever the stored next_run is not the due time
NeedsRefreshWhenDifferent(t, due) ==
    LET db_next_run == ReadTimestamp(t.next_run)
    IN  ~IsSome(db_next_run) \/ Unwrap(db_next_run) # due

\* lines 122-123: the stored next_run is absent, unreadable or older than the due time
NeedsRefresh(t, due) ==
    LET db_next_run == ReadTimestamp(t.next_run)
    IN  ~IsSome(db_next_run) \/ Unwrap(db_next_run) < due

\* lines 203-208: no due time: log and go to the next task
NoUpcomingRun ==
    /\ spc = "refresh"
    /\ next_occurrence = None
    /\ spc' = "loop"
    /\ UNCHANGED <<active_tasks, task, parsed_schedule, now_utc, calculated_next,
                   next_occurrence, tick_result, runs, snapshot, evaluated,
                   skipped, written, invoked, fired>>
    /\ UNCHANGED worldVars
    /\ callIdle

\* lines 114-138: write the due time through to the store when it is newer
RefreshNextRun ==
    /\ spc = "refresh"
    /\ IsSome(next_occurrence)
    /\ IF NeedsRefresh(task, Unwrap(next_occurrence))
       THEN LET t == [task EXCEPT !.next_run = Some(to_rfc3339(Unwrap(next_occurrence)))]
            IN  \/ /\ store' = add_task(task_to_update(t))
                   /\ task' = t
                   /\ written' = written \cup {t.id}
                   /\ spc' = "due_check"
                   /\ UNCHANGED <<active_tasks, tick_result>>
                \/ \* add_task fails: `?` leaves check_and_run_tasks
                   /\ task' = t
                   /\ spc' = LoopAfter("err")
                   /\ tick_result' = "err"
                   /\ active_tasks' = <<>>
                   /\ UNCHANGED <<store, written>>
       ELSE /\ spc' = "due_check"
            /\ UNCHANGED <<store, task, written, active_tasks, tick_result>>
    /\ UNCHANGED <<parsed_schedule, now_utc, calculated_next, next_occurrence,
                   runs, snapshot, evaluated, skipped, invoked, fired, clock>>
    /\ callIdle

\* a test that lets a task run one second before it is due
IsDueOneSecondEarly(due, now) == due <= now + 1

\* line 141: is it time to run the task
IsDue(due, now) == due <= now

\* a fire that does not await the call it put on a blocking thread
FireDetached ==
    /\ spc = "due_check"
    /\ IsDue(Unwrap(next_occurrence), now_utc)
    /\ spc' = "loop"
    /\ invoked' = invoked \cup {task.id}
    /\ fired' = fired \cup {task.id}
    /\ UNCHANGED <<active_tasks, task, parsed_schedule, now_utc, calculated_next,
                   next_occurrence, tick_result, runs, snapshot, evaluated,
                   skipped, written>>
    /\ UNCHANGED worldVars
    /\ callIdle

\* lines 141-162: the task is due: run_container_agent is called on a blocking thread
Fire ==
    /\ spc = "due_check"
    /\ IsDue(Unwrap(next_occurrence), now_utc)
    /\ spc' = "running"
    /\ invoked' = invoked \cup {task.id}
    /\ fired' = fired \cup {task.id}
    /\ UNCHANGED <<active_tasks, task, parsed_schedule, now_utc, calculated_next,
                   next_occurrence, tick_result, runs, snapshot, evaluated,
                   skipped, written>>
    /\ UNCHANGED worldVars
    /\ callIdle

\* line 141, else: the task is not due yet
NotDue ==
    /\ spc = "due_check"
    /\ ~IsDue(Unwrap(next_occurrence), now_utc)
    /\ spc' = "loop"
    /\ UNCHANGED <<active_tasks, task, parsed_schedule, now_utc, calculated_next,
                   next_occurrence, tick_result, runs, snapshot, evaluated,
                   skipped, written, invoked, fired>>
    /\ UNCHANGED worldVars
    /\ callIdle

\* lines 182-188: next_run after a run at now
NextRunAfterRun(p, now) ==
    IF p.kind = "cron"
    THEN LET n == cron_after(p.expr, now)
         IN  IF IsSome(n) THEN Some(to_rfc3339(Unwrap(n))) ELSE None
    ELSE Some(to_rfc3339(now + p.duration))

\* a run that failed leaving last_run and next_run as they were
TaskAfterRunOnlyOnSuccess(t, p, now, outcome) ==
    IF outcome = "success"
    THEN [t EXCEPT !.last_run = Some(to_rfc3339(now)), !.next_run = NextRunAfterRun(p, now)]
    ELSE t

\* a last_run that is the time at which the run ended
TaskAfterRunAtCompletion(t, p, now, outcome) ==
    [t EXCEPT !.last_run = Some(to_rfc3339(clock)), !.next_run = NextRunAfterRun(p, clock)]

\* lines 180-188: the task as it is written back after a run that gave outcome
TaskAfterRun(t, p, now, outcome) ==
    [t EXCEPT !.last_run = Some(to_rfc3339(now)), !.next_run = NextRunAfterRun(p, now)]

\* lines 158-201: the agent call returns, whatever its outcome last_run and
\* next_run are set and the row is written back
AgentReturns ==
    /\ spc = "running"
    /\ \E outcome \in Outcomes :
          LET t == TaskAfterRun(task, parsed_schedule, now_utc, outcome)
          IN  /\ runs' = runs \cup {[id |-> task.id, outcome |-> outcome, at |-> now_utc]}
              /\ task' = t
              /\ \/ /\ store' = add_task(task_to_update(t))
                    /\ written' = written \cup {t.id}
                    /\ spc' = "loop"
                    /\ UNCHANGED <<active_tasks, tick_result>>
                 \/ \* add_task fails: `?` leaves check_and_run_tasks
                    /\ spc' = LoopAfter("err")
                    /\ tick_result' = "err"
                    /\ active_tasks' = <<>>
                    /\ UNCHANGED <<store, written>>
    /\ UNCHANGED <<parsed_schedule, now_utc, calculated_next, next_occurrence,
                   snapshot, evaluated, skipped, invoked, fired, clock>>
    /\ callIdle

\* time passes
AdvanceClock ==
    /\ clock < MaxTime
    /\ clock' = clock + 1
    /\ UNCHANGED <<store, schedVars>>
    /\ callIdle

SchedulerStep ==
    \/ Tick
    \/ TickReadFails
    \/ TickEnds
    \/ SkipInvalid
    \/ BeginEvaluation
    \/ CatchUpTest
    \/ CatchUpBody
    \/ NoUpcomingRun
    \/ RefreshNextRun
    \/ Fire
    \/ NotDue
    \/ AgentReturns

----------------------------------------------------------------------------
(* The docker daemon and the container rclaw-agent-singleton *)

ReadyTimeoutMs == 10000
PollIntervalMs == 200

Healths == {"none", "starting", "healthy", "unhealthy"}

\* the states a container can be found in: a container with a health check
\* that is not running is not healthy
DockerStates ==
    {d \in [status : {"absent", "exited", "running"}, health : Healths] :
        /\ d.status = "absent" => d.health = "none"
        /\ d.status = "exited" => d.health \in {"none", "unhealthy"}}

\* docker inspect -f {{.State.Status}}: Some(status), or None when the
\* command exits non-zero because there is no such container
InspectStatus == IF status = "absent" THEN None ELSE Some(status)

\* docker inspect -f {{if .State.Health}}{{.State.Health.Status}}{{else}}{{.State.Running}}{{end}}
InspectReadiness ==
    IF status = "absent" THEN ""
    ELSE IF health # "none" THEN health
    ELSE IF status = "running" THEN "true" ELSE "false"

\* the backend is Ready: running and healthy, or running with no health check
BackendReady == status = "running" /\ health \in {"healthy", "none"}

\* the health check of the running container reports
HealthChanges ==
    /\ status = "running"
    /\ health # "none"
    /\ \E h \in {"healthy", "unhealthy"} : h # health /\ health' = h
    /\ UNCHANGED <<status, containers, callVars>>
    /\ schedIdle

\* the container's process ends, or the container is stopped from outside
ContainerStops ==
    /\ status = "running"
    /\ status' = "exited"
    /\ health' = IF health = "none" THEN "none" ELSE "unhealthy"
    /\ UNCHANGED <<containers, callVars>>
    /\ schedIdle

----------------------------------------------------------------------------
(* run_container_agent and wait_for_container_ready *)

\* the group folders of the model
Groups == {"main", "family"}

\* ContainerInput, as its three callers build it: a fire of the scheduler
\* (task_scheduler.rs lines 149-156), the worker of the TUI (main.rs lines
\* 241-248) and the run command (main.rs lines 295-302)
ScheduledInput(group, id) ==
    [prompt |-> "p", session_id |-> "scheduled-task", group_folder |-> group,
     chat_jid |-> <<"scheduled-task-", id>>, is_main |-> FALSE,
     is_scheduled_task |-> Some(TRUE)]
InteractiveInput ==
    [prompt |-> "p", session_id |-> "interactive", group_folder |-> "main",
     chat_jid |-> <<"tui-user">>, is_main |-> TRUE, is_scheduled_task |-> None]
RunInput(group) ==
    [prompt |-> "p", session_id |-> "cli-run", group_folder |-> group,
     chat_jid |-> <<"test-user@s.whatsapp.net">>, is_main |-> group = "main",
     is_scheduled_task |-> None]
Inputs ==
    {ScheduledInput(g, "t1") : g \in Groups} \cup {InteractiveInput}
        \cup {RunInput(g) : g \in Groups}
NoInput ==
    [prompt |-> "", session_id |-> "", group_folder |-> "", chat_jid |-> <<>>,
     is_main |-> FALSE, is_scheduled_task |-> None]

\* a container for every group folder
container_name_per_group(in) == in.group_folder

\* line 64: the name of the container, whatever the input
container_name(in) == "rclaw-agent-singleton"

\* the containers the daemon holds when rclaw-agent-singleton has status st
ContainersAt(st) == IF st = "absent" THEN {} ELSE {"rclaw-agent-singleton"}

\* a caller (a fire of the scheduler, the worker, the run command) calls
\* run_container_agent
Invoke ==
    /\ cpc = "idle"
    /\ cpc' = "inspect"
    /\ needs_wait' = FALSE
    /\ elapsed' = 0
    /\ result' = "none"
    /\ starts' = 0
    /\ creates' = 0
    /\ polls' = 0
    /\ execs' = 0
    /\ sent' = 0
    /\ observed_ready' = FALSE
    /\ entry_state' = "none"
    /\ timed_out' = FALSE
    /\ UNCHANGED dockerVars
    /\ \E in \in Inputs : input' = in
    /\ UNCHANGED addressed
    /\ spawn_failed' = FALSE
    /\ schedIdle

\* lines 75-93: docker inspect, and the match on what it gave.  A command
\* that could not be spawned and a container that does not exist both take
\* the `_` arm.
Inspect ==
    /\ cpc = "inspect"
    /\ \E spawned \in BOOLEAN :
          LET found == IF spawned THEN InspectStatus ELSE None
          IN  /\ spawn_failed' = ~spawned
              /\ IF IsSome(found)
                 THEN IF Unwrap(found) # "running"
                      THEN /\ cpc' = "start"
                           /\ entry_state' = "stopped"
                           /\ UNCHANGED observed_ready
                      ELSE /\ cpc' = "exec"
                           /\ entry_state' = "running"
                           /\ observed_ready' = BackendReady
                 ELSE /\ cpc' = "create"
                      /\ entry_state' = "absent"
                      /\ UNCHANGED observed_ready
    /\ UNCHANGED <<needs_wait, elapsed, result, starts, creates, polls, execs, sent,
                   timed_out>>
    /\ UNCHANGED dockerVars
    /\ addressed' = addressed \cup {container_name(input)}
    /\ UNCHANGED input
    /\ schedIdle

\* a start after which the call does not wait for the container
StartWithoutWait ==
    /\ cpc = "start"
    /\ starts' = starts + 1
    /\ cpc' = "exec"
    /\ \/ /\ status = "exited"
          /\ status' = "running"
          /\ health' = IF health = "none" THEN "none" ELSE "starting"
          /\ UNCHANGED containers
       \/ UNCHANGED dockerVars
    /\ UNCHANGED <<needs_wait, elapsed, result, creates, polls, execs, sent, observed_ready,
                   entry_state, timed_out, input, addressed, spawn_failed>>
    /\ schedIdle

\* lines 85-91: docker start; its exit status is not looked at
Start ==
    /\ cpc = "start"
    /\ \/ \* the command ran
          /\ starts' = starts + 1
          /\ needs_wait' = TRUE
          /\ elapsed' = 0
          /\ cpc' = "wait"
          /\ \/ /\ status = "exited"
                /\ status' = "running"
                /\ health' = IF health = "none" THEN "none" ELSE "starting"
                /\ UNCHANGED containers
             \/ UNCHANGED dockerVars
          /\ UNCHANGED <<result, spawn_failed>>
       \/ \* the command could not be spawned: `?`
          /\ result' = "err"
          /\ spawn_failed' = TRUE
          /\ cpc' = "done"
          /\ UNCHANGED <<starts, needs_wait, elapsed, dockerVars>>
    /\ UNCHANGED <<creates, polls, execs, sent, observed_ready, entry_state, timed_out>>
    /\ addressed' = addressed \cup {container_name(input)}
    /\ UNCHANGED input
    /\ schedIdle

\* lines 95-139: docker run -d --name rclaw-agent-singleton ... tail -f /dev/null
Create ==
    /\ cpc = "create"
    /\ \/ \* the command ran and the container was created
          /\ status = "absent"
          /\ status' = "running"
          /\ \E h \in {"none", "starting"} : health' = h
          /\ containers' = containers \cup {container_name(input)}
          /\ creates' = creates + 1
          /\ needs_wait' = TRUE
          /\ elapsed' = 0
          /\ cpc' = "wait"
          /\ UNCHANGED <<result, spawn_failed>>
       \/ \* the command ran and exited non-zero: lines 130-137
          /\ creates' = creates + 1
          /\ result' = "error"
          /\ cpc' = "done"
          /\ UNCHANGED <<needs_wait, elapsed, dockerVars, spawn_failed>>
       \/ \* the command could not be spawned: `?`
          /\ result' = "err"
          /\ spawn_failed' = TRUE
          /\ cpc' = "done"
          /\ UNCHANGED <<creates, needs_wait, elapsed, dockerVars>>
    /\ UNCHANGED <<starts, polls, execs, sent, observed_ready, entry_state, timed_out>>
    /\ addressed' = addressed \cup {container_name(input)}
    /\ UNCHANGED input
    /\ schedIdle

\* a wait that ends only on a health check's report
IsReadyStatusHealthOnly(s) == s = "healthy"

\* line 46: the status that ends the wait
IsReadyStatus(s) == s = "healthy" \/ s = "true"

\* line 38: the condition of the polling loop
WithinTimeout(e) == e < ReadyTimeoutMs

\* lines 38-48: a poll that finds the container ready
PollReady ==
    /\ cpc = "wait"
    /\ WithinTimeout(elapsed)
    /\ IsReadyStatus(InspectReadiness)
    /\ polls' = polls + 1
    /\ observed_ready' = TRUE
    /\ cpc' = "exec"
    /\ UNCHANGED <<needs_wait, elapsed, result, starts, creates, execs, sent, entry_state,
                   timed_out>>
    /\ UNCHANGED dockerVars
    /\ addressed' = addressed \cup {container_name(input)}
    /\ UNCHANGED input
    /\ UNCHANGED spawn_failed
    /\ schedIdle

\* lines 38-52: a poll that does not, and the sleep after it; the inspect
\* command itself takes no time or one more interval
PollNotReady ==
    /\ cpc = "wait"
    /\ WithinTimeout(elapsed)
    /\ ~IsReadyStatus(InspectReadiness)
    /\ polls' = polls + 1
    /\ \E cost \in {0, PollIntervalMs} : elapsed' = elapsed + cost + PollIntervalMs
    /\ UNCHANGED <<cpc, needs_wait, result, starts, creates, execs, sent, observed_ready,
                   entry_state, timed_out>>
    /\ UNCHANGED dockerVars
    /\ addressed' = addressed \cup {container_name(input)}
    /\ UNCHANGED input
    /\ UNCHANGED spawn_failed
    /\ schedIdle

\* line 41: the inspect command of a poll could not be spawned: `?`
PollSpawnFails ==
    /\ cpc = "wait"
    /\ WithinTimeout(elapsed)
    /\ result' = "err"
    /\ cpc' = "done"
    /\ UNCHANGED <<needs_wait, elapsed, starts, creates, polls, execs, sent, observed_ready,
                   entry_state, timed_out>>
    /\ UNCHANGED dockerVars
    /\ addressed' = addressed \cup {container_name(input)}
    /\ UNCHANGED input
    /\ spawn_failed' = TRUE
    /\ schedIdle

\* a timeout whose error is dropped, so that the call goes on to docker exec
PollTimeoutIgnored ==
    /\ cpc = "wait"
    /\ ~WithinTimeout(elapsed)
    /\ timed_out' = TRUE
    /\ cpc' = "exec"
    /\ UNCHANGED <<needs_wait, elapsed, result, starts, creates, polls, execs, sent,
                   observed_ready, entry_state>>
    /\ UNCHANGED dockerVars
    /\ UNCHANGED <<input, addressed>>
    /\ UNCHANGED spawn_failed
    /\ schedIdle

\* lines 38, 54 and 144: the timeout has passed: bail, and `?` returns the error
PollTimeout ==
    /\ cpc = "wait"
    /\ ~WithinTimeout(elapsed)
    /\ timed_out' = TRUE
    /\ result' = "err"
    /\ cpc' = "done"
    /\ UNCHANGED <<needs_wait, elapsed, starts, creates, polls, execs, sent, observed_ready,
                   entry_state>>
    /\ UNCHANGED dockerVars
    /\ UNCHANGED <<input, addressed>>
    /\ UNCHANGED spawn_failed
    /\ schedIdle

\* lines 149-155: docker exec -i is spawned with its three pipes
Exec ==
    /\ cpc = "exec"
    /\ \/ /\ execs' = execs + 1
          /\ cpc' = "write"
          /\ UNCHANGED <<result, spawn_failed>>
       \/ \* "Failed to execute docker exec"
          /\ result' = "err"
          /\ spawn_failed' = TRUE
          /\ cpc' = "done"
          /\ UNCHANGED execs
    /\ UNCHANGED <<needs_wait, elapsed, starts, creates, polls, sent, observed_ready,
                   entry_state, timed_out>>
    /\ UNCHANGED dockerVars
    /\ addressed' = addressed \cup {container_name(input)}
    /\ UNCHANGED input
    /\ schedIdle

\* lines 158-161: the request is serialized and written to the child's stdin
WriteRequest ==
    /\ cpc = "write"
    /\ \/ /\ sent' = sent + 1
          /\ cpc' = "read_stdout"
          /\ UNCHANGED result
       \/ \* write_all fails: `?`
          /\ result' = "err"
          /\ cpc' = "done"
          /\ UNCHANGED sent
    /\ UNCHANGED <<needs_wait, elapsed, starts, creates, polls, execs, observed_ready,
                   entry_state, timed_out>>
    /\ UNCHANGED dockerVars
    /\ UNCHANGED <<input, addressed>>
    /\ UNCHANGED spawn_failed
    /\ schedIdle

\* lines 163-166: stdout is read to its end
ReadStdout ==
    /\ cpc = "read_stdout"
    /\ cpc' = "read_stderr"
    /\ UNCHANGED <<needs_wait, elapsed, result, starts, creates, polls, execs, sent,
                   observed_ready, entry_state, timed_out>>
    /\ UNCHANGED dockerVars
    /\ UNCHANGED <<input, addressed>>
    /\ UNCHANGED spawn_failed
    /\ schedIdle

\* lines 168-171: stderr is read to its end
ReadStderr ==
    /\ cpc = "read_stderr"
    /\ cpc' = "wait_exit"
    /\ UNCHANGED <<needs_wait, elapsed, result, starts, creates, polls, execs, sent,
                   observed_ready, entry_state, timed_out>>
    /\ UNCHANGED dockerVars
    /\ UNCHANGED <<input, addressed>>
    /\ UNCHANGED spawn_failed
    /\ schedIdle

\* lines 173-257: the exit status is awaited and the output is built
WaitExit ==
    /\ cpc = "wait_exit"
    /\ \E success \in BOOLEAN : result' = IF success THEN "success" ELSE "error"
    /\ cpc' = "done"
    /\ UNCHANGED <<needs_wait, elapsed, starts, creates, polls, execs, sent, observed_ready,
                   entry_state, timed_out>>
    /\ UNCHANGED dockerVars
    /\ UNCHANGED <<input, addressed>>
    /\ UNCHANGED spawn_failed
    /\ schedIdle

\* run_container_agent has returned to its caller
Return ==
    /\ cpc = "done"
    /\ cpc' = "idle"
    /\ UNCHANGED <<needs_wait, elapsed, result, starts, creates, polls, execs, sent,
                   observed_ready, entry_state, timed_out>>
    /\ UNCHANGED dockerVars
    /\ UNCHANGED <<input, addressed>>
    /\ UNCHANGED spawn_failed
    /\ schedIdle

CallStep ==
    \/ Invoke
    \/ Inspect
    \/ Start
    \/ Create
    \/ PollReady
    \/ PollNotReady
    \/ PollSpawnFails
    \/ PollTimeout
    \/ Exec
    \/ WriteRequest
    \/ ReadStdout
    \/ ReadStderr
    \/ WaitExit
    \/ Return

----------------------------------------------------------------------------
(* Calls of run_container_agent that run at the same time: the worker puts *)
(* every interactive call on a blocking thread of its own (main.rs, lines  *)
(* 250-271) and the scheduler does the same for a fire (task_scheduler.rs, *)
(* lines 158-162).  Each call goes through lines 74-173 against the one    *)
(* docker daemon.  The commands are taken to be spawned and the image to   *)
(* exist: docker run exits non-zero exactly when the name is in use.       *)

CallIds == {1, 2}

NotCalled == [pc |-> "idle", entry_state |-> "none", elapsed |-> 0, polls |-> 0,
              starts |-> 0, created |-> FALSE, execs |-> 0, result |-> "none"]

NoInvocations == invocations = [c \in CallIds |-> NotCalled]

raceOnly == UNCHANGED <<worldVars, schedVars, callVars, outVars, appVars, pipeVars>>

\* a caller calls run_container_agent
ConcInvoke(c) ==
    /\ invocations[c].pc = "idle"
    /\ invocations' = [invocations EXCEPT ![c].pc = "inspect"]
    /\ UNCHANGED dockerVars
    /\ raceOnly

\* lines 75-93: docker inspect and the match on its result
ConcInspect(c) ==
    /\ invocations[c].pc = "inspect"
    /\ invocations' =
          IF IsSome(InspectStatus)
          THEN IF Unwrap(InspectStatus) # "running"
               THEN [invocations EXCEPT ![c].pc = "start", ![c].entry_state = "stopped"]
               ELSE [invocations EXCEPT ![c].pc = "exec", ![c].entry_state = "running"]
          ELSE [invocations EXCEPT ![c].pc = "create", ![c].entry_state = "absent"]
    /\ UNCHANGED dockerVars
    /\ raceOnly

\* lines 85-91: docker start; its exit status is not looked at
ConcStart(c) ==
    /\ invocations[c].pc = "start"
    /\ invocations' = [invocations EXCEPT ![c].pc = "wait", ![c].starts = @ + 1,
                                          ![c].elapsed = 0]
    /\ IF status = "exited"
       THEN /\ status' = "running"
            /\ health' = IF health = "none" THEN "none" ELSE "starting"
            /\ UNCHANGED containers
       ELSE UNCHANGED dockerVars
    /\ raceOnly

\* a docker run that finds the name in use and takes the container as its own
ConcCreateOrAdopt(c) ==
    /\ invocations[c].pc = "create"
    /\ IF status = "absent"
       THEN /\ status' = "running"
            /\ \E h \in {"none", "starting"} : health' = h
            /\ containers' = containers \cup {"rclaw-agent-singleton"}
            /\ invocations' = [invocations EXCEPT ![c].pc = "wait", ![c].created = TRUE,
                                                  ![c].elapsed = 0]
       ELSE /\ invocations' = [invocations EXCEPT ![c].pc = "wait", ![c].elapsed = 0]
            /\ UNCHANGED dockerVars
    /\ raceOnly

\* lines 95-139: docker run -d --name rclaw-agent-singleton: the container is
\* created when no container has that name; when one has, docker run exits
\* non-zero and the call returns "Failed to create container"
ConcCreate(c) ==
    /\ invocations[c].pc = "create"
    /\ IF status = "absent"
       THEN /\ status' = "running"
            /\ \E h \in {"none", "starting"} : health' = h
            /\ containers' = containers \cup {"rclaw-agent-singleton"}
            /\ invocations' = [invocations EXCEPT ![c].pc = "wait", ![c].created = TRUE,
                                                  ![c].elapsed = 0]
       ELSE /\ invocations' = [invocations EXCEPT ![c].pc = "done",
                                                  ![c].result = "create_failed"]
            /\ UNCHANGED dockerVars
    /\ raceOnly

\* lines 38-52 and 54: a poll of wait_for_container_ready, or its timeout
ConcPoll(c) ==
    /\ invocations[c].pc = "wait"
    /\ invocations' =
          IF ~WithinTimeout(invocations[c].elapsed)
          THEN [invocations EXCEPT ![c].pc = "done", ![c].result = "err"]
          ELSE IF IsReadyStatus(InspectReadiness)
               THEN [invocations EXCEPT ![c].pc = "exec", ![c].polls = @ + 1]
               ELSE [invocations EXCEPT ![c].polls = @ + 1,
                                        ![c].elapsed = @ + PollIntervalMs]
    /\ UNCHANGED dockerVars
    /\ raceOnly

\* lines 149-161: docker exec is spawned and the request written
ConcExec(c) ==
    /\ invocations[c].pc = "exec"
    /\ invocations' = [invocations EXCEPT ![c].pc = "exchange", ![c].execs = @ + 1]
    /\ UNCHANGED dockerVars
    /\ raceOnly

\* lines 163-257: the output is read, the exit status awaited, the result built
ConcExchangeEnds(c) ==
    /\ invocations[c].pc = "exchange"
    /\ \E r \in {"success", "error"} :
          invocations' = [invocations EXCEPT ![c].pc = "done", ![c].result = r]
    /\ UNCHANGED dockerVars
    /\ raceOnly

\* the health check of the running container reports, next to the calls
ConcHealthChanges ==
    /\ status = "running"
    /\ health # "none"
    /\ \E h \in {"healthy", "unhealthy"} : h # health /\ health' = h
    /\ UNCHANGED <<status, containers, invocations>>
    /\ raceOnly

ConcStep ==
    \E c \in CallIds :
        \/ ConcInvoke(c)
        \/ ConcInspect(c)
        \/ ConcStart(c)
        \/ ConcCreate(c)
        \/ ConcPoll(c)
        \/ ConcExec(c)
        \/ ConcExchangeEnds(c)

----------------------------------------------------------------------------
(* One exchange over the pipes of the docker exec child (container.rs,     *)
(* lines 149-173).  A pipe buffers PipeCapacity bytes: a write to a full   *)
(* pipe and a read from an empty pipe whose other end is open both block.  *)
(* The child is a process that reads its input to the end, writes what it  *)
(* has to write to stdout and stderr in the order of its program, and      *)
(* exits once all of that has been accepted.                               *)

PipeCapacity == 2     \* the bytes a pipe buffers
MaxWrites == 4        \* the bytes the child writes, at most
MaxRequest == 3       \* the bytes of the serialized request, at most

Channels == {"stdout", "stderr"}

\* the programs of the child: what it writes, byte by byte, and where
RECURSIVE Programs(_)
Programs(n) ==
    IF n = 0 THEN {<<>>}
    ELSE Programs(n - 1) \cup {Append(p, c) : p \in Programs(n - 1), c \in Channels}

NoChild == [pc |-> "none", input_eof |-> FALSE, todo |-> <<>>]

\* the steps of an exchange, in the order of lines 149-173
ExchangeOrder == <<"exec", "write", "close_stdin", "stdout_eof", "stderr_eof", "wait">>

pipeOnly == UNCHANGED <<worldVars, schedVars, dockerVars, callVars, outVars, appVars, invocations>>

\* lines 149-155: docker exec -i is spawned with three pipes
SpawnExec ==
    /\ xpc = "exec"
    /\ child' = [child EXCEPT !.pc = "running"]
    /\ xpc' = "write"
    /\ xlog' = Append(xlog, "exec")
    /\ UNCHANGED <<request_left, stdin_closed, stdin_pipe, stdout_pipe, stderr_pipe,
                   stdout_read, stderr_read>>
    /\ pipeOnly

\* line 160: write_all puts the next byte of the request into the pipe, which
\* it can do when the pipe has room
WriteAll ==
    /\ xpc = "write"
    /\ request_left > 0
    /\ stdin_pipe < PipeCapacity
    /\ stdin_pipe' = stdin_pipe + 1
    /\ request_left' = request_left - 1
    /\ xlog' = IF request_left = 1 THEN Append(xlog, "write") ELSE xlog
    /\ UNCHANGED <<xpc, stdin_closed, stdout_pipe, stderr_pipe, child, stdout_read,
                   stderr_read>>
    /\ pipeOnly

\* line 161: the block ends and the ChildStdin is dropped, which closes the pipe
CloseStdin ==
    /\ xpc = "write"
    /\ request_left = 0
    /\ stdin_closed' = TRUE
    /\ xpc' = "read_stdout"
    /\ xlog' = Append(xlog, "close_stdin")
    /\ UNCHANGED <<request_left, stdin_pipe, stdout_pipe, stderr_pipe, child, stdout_read,
                   stderr_read>>
    /\ pipeOnly

\* line 165: read_to_string takes what the stdout pipe holds
ReadStdoutSome ==
    /\ xpc = "read_stdout"
    /\ stdout_pipe > 0
    /\ stdout_read' = stdout_read + stdout_pipe
    /\ stdout_pipe' = 0
    /\ UNCHANGED <<xpc, request_left, stdin_closed, stdin_pipe, stderr_pipe, child,
                   stderr_read, xlog>>
    /\ pipeOnly

\* a read of stdout after whose end the exit status is awaited at once
ReadStdoutEofThenWait ==
    /\ xpc = "read_stdout"
    /\ stdout_pipe = 0
    /\ child.pc = "exited"
    /\ xpc' = "wait"
    /\ xlog' = Append(xlog, "stdout_eof")
    /\ UNCHANGED <<request_left, stdin_closed, stdin_pipe, stdout_pipe, stderr_pipe, child,
                   stdout_read, stderr_read>>
    /\ pipeOnly

\* line 165: read_to_string returns: the pipe is empty and the child, which
\* held its other end, is gone
ReadStdoutEof ==
    /\ xpc = "read_stdout"
    /\ stdout_pipe = 0
    /\ child.pc = "exited"
    /\ xpc' = "read_stderr"
    /\ xlog' = Append(xlog, "stdout_eof")
    /\ UNCHANGED <<request_left, stdin_closed, stdin_pipe, stdout_pipe, stderr_pipe, child,
                   stdout_read, stderr_read>>
    /\ pipeOnly

\* line 170: read_to_string takes what the stderr pipe holds
ReadStderrSome ==
    /\ xpc = "read_stderr"
    /\ stderr_pipe > 0
    /\ stderr_read' = stderr_read + stderr_pipe
    /\ stderr_pipe' = 0
    /\ UNCHANGED <<xpc, request_left, stdin_closed, stdin_pipe, stdout_pipe, child,
                   stdout_read, xlog>>
    /\ pipeOnly

\* line 170: read_to_string returns at the end of stderr
ReadStderrEof ==
    /\ xpc = "read_stderr"
    /\ stderr_pipe = 0
    /\ child.pc = "exited"
    /\ xpc' = "wait"
    /\ xlog' = Append(xlog, "stderr_eof")
    /\ UNCHANGED <<request_left, stdin_closed, stdin_pipe, stdout_pipe, stderr_pipe, child,
                   stdout_read, stderr_read>>
    /\ pipeOnly

\* line 173: child.wait() returns the exit status of the child that has exited
ChildWait ==
    /\ xpc = "wait"
    /\ child.pc = "exited"
    /\ xpc' = "done"
    /\ xlog' = Append(xlog, "wait")
    /\ UNCHANGED <<request_left, stdin_closed, stdin_pipe, stdout_pipe, stderr_pipe, child,
                   stdout_read, stderr_read>>
    /\ pipeOnly

\* the child reads a byte of its input
ChildReads ==
    /\ child.pc = "running"
    /\ stdin_pipe > 0
    /\ stdin_pipe' = stdin_pipe - 1
    /\ UNCHANGED <<xpc, request_left, stdin_closed, stdout_pipe, stderr_pipe, child,
                   stdout_read, stderr_read, xlog>>
    /\ pipeOnly

\* the child reads the end of its input: the pipe is empty and closed
ChildReadsEof ==
    /\ child.pc = "running"
    /\ ~child.input_eof
    /\ stdin_pipe = 0
    /\ stdin_closed
    /\ child' = [child EXCEPT !.input_eof = TRUE]
    /\ UNCHANGED <<xpc, request_left, stdin_closed, stdin_pipe, stdout_pipe, stderr_pipe,
                   stdout_read, stderr_read, xlog>>
    /\ pipeOnly

\* the child writes the next byte of its program, which it can do when the
\* pipe of that channel has room
ChildWrites ==
    /\ child.pc = "running"
    /\ child.todo # <<>>
    /\ IF Head(child.todo) = "stdout"
       THEN /\ stdout_pipe < PipeCapacity
            /\ stdout_pipe' = stdout_pipe + 1
            /\ UNCHANGED stderr_pipe
       ELSE /\ stderr_pipe < PipeCapacity
            /\ stderr_pipe' = stderr_pipe + 1
            /\ UNCHANGED stdout_pipe
    /\ child' = [child EXCEPT !.todo = Tail(child.todo)]
    /\ UNCHANGED <<xpc, request_left, stdin_closed, stdin_pipe, stdout_read, stderr_read,
                   xlog>>
    /\ pipeOnly

\* the child has read its input and written all it had to: it exits, which
\* closes its ends of the pipes
ChildExits ==
    /\ child.pc = "running"
    /\ child.input_eof
    /\ child.todo = <<>>
    /\ child' = [child EXCEPT !.pc = "exited"]
    /\ UNCHANGED <<xpc, request_left, stdin_closed, stdin_pipe, stdout_pipe, stderr_pipe,
                   stdout_read, stderr_read, xlog>>
    /\ pipeOnly

HostStep ==
    \/ SpawnExec
    \/ WriteAll
    \/ CloseStdin
    \/ ReadStdoutSome
    \/ ReadStdoutEof
    \/ ReadStderrSome
    \/ ReadStderrEof
    \/ ChildWait

ChildStep == ChildReads \/ ChildReadsEof \/ ChildWrites \/ ChildExits

\* no exchange over the pipes
PipeIdle ==
    /\ xpc = "idle"
    /\ request_left = 0
    /\ stdin_closed = FALSE
    /\ stdin_pipe = 0
    /\ stdout_pipe = 0
    /\ stderr_pipe = 0
    /\ child = NoChild
    /\ stdout_read = 0
    /\ stderr_read = 0
    /\ xlog = <<>>

----------------------------------------------------------------------------
(* The end of an exchange: the exit status of docker exec, the filtering   *)
(* of its stderr and the decoding of the stream-json lines of its stdout   *)
(* (container.rs, lines 173-257).                                          *)
(*                                                                         *)
(* A text is a sequence of pieces: every whitespace character is a piece   *)
(* of its own, the other pieces are chunks of non-whitespace characters.   *)

MaxEvents == 3        \* lines of stdout
MaxStderrLines == 2   \* lines of stderr

\* str::contains
contains(s, p) == \E i \in 0..(Len(s) - Len(p)) : SubSeq(s, i + 1, i + Len(p)) = p

\* str::ends_with
ends_with(s, p) == Len(s) >= Len(p) /\ SubSeq(s, Len(s) - Len(p) + 1, Len(s)) = p

\* str::trim
RECURSIVE trim_start(_)
trim_start(s) == IF s # <<>> /\ is_whitespace(s[1]) THEN trim_start(Tail(s)) ELSE s
RECURSIVE trim_end(_)
trim_end(s) ==
    IF s # <<>> /\ is_whitespace(s[Len(s)]) THEN trim_end(SubSeq(s, 1, Len(s) - 1)) ELSE s
trim(s) == trim_end(trim_start(s))

\* [&str]::join
RECURSIVE join(_, _)
join(lines, sep) ==
    IF lines = <<>> THEN <<>>
    ELSE IF Len(lines) = 1 THEN lines[1]
    ELSE lines[1] \o sep \o join(Tail(lines), sep)

\* lines 182-185: the substrings that mark a line of stderr as noise
NoiseMarks ==
    {<<"DeprecationWarning">>, <<"punycode">>, <<"YOLO", " ", "mode">>,
     <<"Loaded", " ", "cached", " ", "credentials">>}

\* lines 181-186: the filter's predicate
is_kept(line) == \A m \in NoiseMarks : ~contains(line, m)

\* lines 179-188: stderr without its noise lines, joined again
filtered_stderr(err) == join(SelectSeq(err, is_kept), <<"\n">>)

\* the lines of stderr of the model
LineDeprecation ==
    <<"(node:7)", " ", "[DEP0040]", " ", "DeprecationWarning", ":", " ", "The", " ",
      "punycode", " ", "module", " ", "is", " ", "deprecated.">>
LineCredentials == <<"Loaded", " ", "cached", " ", "credentials", ".">>
LineYolo == <<"YOLO", " ", "mode", " ", "is", " ", "enabled.">>
LineFailure == <<"Error:", " ", "quota", " ", "exceeded">>
StderrLines == {LineDeprecation, LineCredentials, LineYolo, LineFailure}

\* ContainerOutput
NoOutput == [status |-> "none", result |-> None, new_session_id |-> None, error |-> None]

\* lines 191-196: the output of an exec that exited non-zero
ErrorOutput(filtered) ==
    [status |-> "error", result |-> None, new_session_id |-> None,
     error |-> Some(<<"Container", " ", "error", " ", "(exit", " ", "status:", " ",
                      "exit", " ", "status:", " ", "1):", " ">> \o filtered)]

\* lines 252-257: the output of an exec that exited zero
SuccessOutput(transcript) ==
    [status |-> "success", result |-> Some(transcript), new_session_id |-> None,
     error |-> None]

\* a line of stdout: no JSON value, or a JSON value of which the decoder reads
\* type, role, content, tool_name, parameters.command and output
NotJson ==
    [json |-> FALSE, type |-> "", role |-> None, content |-> None, tool_name |-> None,
     command |-> None, output |-> None]
JsonLine(type, role, content, tool_name, command, out) ==
    [json |-> TRUE, type |-> type, role |-> role, content |-> content,
     tool_name |-> tool_name, command |-> command, output |-> out]
Message(role, content) == JsonLine("message", Some(role), content, None, None, None)
ToolUse(tool_name, command) == JsonLine("tool_use", None, None, tool_name, command, None)
ToolResult(out) == JsonLine("tool_result", None, None, None, None, out)

\* the lines of stdout of the model
MsgHi == Message("assistant", Some(<<"Hi", " ">>))
MsgThere == Message("assistant", Some(<<"there">>))
MsgParagraph == Message("assistant", Some(<<"Done.", "\n", "\n">>))
MsgUser == Message("user", Some(<<"hello">>))
MsgNoContent == Message("assistant", None)
UseShellLs == ToolUse(Some(<<"shell">>), Some(<<"ls">>))
UseRead == ToolUse(Some(<<"read">>), None)
UseUnnamed == ToolUse(None, None)
ResultFile == ToolResult(Some(<<"file.txt">>))
ResultNoOutput == ToolResult(None)
ResultTwoLines == ToolResult(Some(<<"a", "\n", "b">>))
InitEvent == JsonLine("init", None, None, None, None, None)
StdoutLines ==
    {MsgHi, MsgThere, MsgParagraph, MsgUser, MsgNoContent, UseShellLs, UseRead,
     UseUnnamed, ResultFile, ResultNoOutput, ResultTwoLines, InitEvent, NotJson}

\* the blank-line separator
Separator == <<"\n", "\n">>

\* a separator of one line break
push_separator_single(fr) ==
    IF fr # <<>> /\ ~ends_with(fr, <<"\n">>) THEN fr \o <<"\n">> ELSE fr

\* lines 213-215, 231-233, 239-241: push "\n\n" unless the transcript is empty
\* or ends with it
push_separator(fr) ==
    IF fr # <<>> /\ ~ends_with(fr, Separator) THEN fr \o Separator ELSE fr

\* an assistant fragment that is separated from whatever came before
on_message_always_separated(acc, line) ==
    IF IsSome(line.content) /\ line.role = Some("assistant")
    THEN [final_result |-> push_separator(acc.final_result) \o Unwrap(line.content),
          last_type |-> "message"]
    ELSE acc

\* lines 208-221: a message
on_message(acc, line) ==
    IF IsSome(line.content)
    THEN IF line.role = Some("assistant")
         THEN [final_result |->
                   (IF acc.last_type = "tool_use" \/ acc.last_type = "tool_result"
                    THEN push_separator(acc.final_result)
                    ELSE acc.final_result) \o Unwrap(line.content),
               last_type |-> "message"]
         ELSE acc
    ELSE acc

\* a description of the tool that leaves the command out
tool_desc_name_only(line) ==
    IF IsSome(line.tool_name) THEN Unwrap(line.tool_name) ELSE <<"unknown">>

\* lines 223-229: the name of the tool, and its command when there is one
tool_desc(line) ==
    LET tool_name == IF IsSome(line.tool_name) THEN Unwrap(line.tool_name)
                     ELSE <<"unknown">>
    IN  IF IsSome(line.command)
        THEN tool_name \o <<" ", "(">> \o Unwrap(line.command) \o <<")">>
        ELSE tool_name

\* lines 222-236: a tool_use
on_tool_use(acc, line) ==
    [final_result |-> push_separator(acc.final_result)
                        \o <<"[RCLAW_USE_TOOL]">> \o tool_desc(line),
     last_type |-> "tool_use"]

\* a tool_result whose block is not closed
on_tool_result_unbounded(acc, line) ==
    IF IsSome(line.output)
    THEN [final_result |-> push_separator(acc.final_result)
                             \o <<"[RCLAW_TOOL_RESULT]">> \o Unwrap(line.output),
          last_type |-> "tool_result"]
    ELSE acc

\* lines 237-246: a tool_result
on_tool_result(acc, line) ==
    IF IsSome(line.output)
    THEN [final_result |-> push_separator(acc.final_result)
                             \o <<"[RCLAW_TOOL_RESULT]">> \o Unwrap(line.output)
                             \o <<"[RCLAW_END_RESULT]">>,
          last_type |-> "tool_result"]
    ELSE acc

\* a loop that remembers the type of every record, recognised or not
decode_line_tracks_every_type(acc, line) ==
    IF ~line.json THEN acc
    ELSE CASE line.type = "message" -> on_message(acc, line)
           [] line.type = "tool_use" -> on_tool_use(acc, line)
           [] line.type = "tool_result" -> on_tool_result(acc, line)
           [] OTHER -> [acc EXCEPT !.last_type = line.type]

\* lines 203-250: the body of the for loop over the lines of stdout
decode_line(acc, line) ==
    IF ~line.json THEN acc
    ELSE CASE line.type = "message" -> on_message(acc, line)
           [] line.type = "tool_use" -> on_tool_use(acc, line)
           [] line.type = "tool_result" -> on_tool_result(acc, line)
           [] OTHER -> acc

\* lines 200-250: final_result and last_type after the for loop over lines
RECURSIVE decode(_)
decode(lines) ==
    IF lines = <<>> THEN [final_result |-> <<>>, last_type |-> ""]
    ELSE decode_line(decode(SubSeq(lines, 1, Len(lines) - 1)), lines[Len(lines)])

outOnly == UNCHANGED <<worldVars, schedVars, dockerVars, callVars, appVars, pipeVars, invocations>>

\* lines 173-197: the exit status is looked at; non-zero returns an error
\* that carries the filtered stderr
CheckExit ==
    /\ opc = "exited"
    /\ IF ~exit_success
       THEN /\ output' = ErrorOutput(filtered_stderr(stderr))
            /\ opc' = "returned"
       ELSE /\ opc' = "decode"
            /\ UNCHANGED output
    /\ UNCHANGED <<exit_success, stderr, stdout, consumed, final_result, last_type,
                   chat_text>>
    /\ outOnly

\* lines 203-250: one line of stdout is decoded
DecodeLine ==
    /\ opc = "decode"
    /\ stdout # <<>>
    /\ LET acc == decode_line([final_result |-> final_result, last_type |-> last_type],
                              Head(stdout))
       IN  /\ final_result' = acc.final_result
           /\ last_type' = acc.last_type
    /\ stdout' = Tail(stdout)
    /\ consumed' = Append(consumed, Head(stdout))
    /\ UNCHANGED <<opc, exit_success, stderr, output, chat_text>>
    /\ outOnly

\* lines 252-257: the transcript is trimmed and returned
ReturnSuccess ==
    /\ opc = "decode"
    /\ stdout = <<>>
    /\ output' = SuccessOutput(trim(final_result))
    /\ opc' = "returned"
    /\ UNCHANGED <<exit_success, stderr, stdout, consumed, final_result, last_type,
                   chat_text>>
    /\ outOnly

\* str::lines: the text between line breaks; a line break at the end adds no line
RECURSIVE LinesFrom(_, _, _)
LinesFrom(s, i, cur) ==
    IF i > Len(s)
    THEN IF cur = <<>> THEN <<>> ELSE <<cur>>
    ELSE IF s[i] = "\n"
         THEN <<cur>> \o LinesFrom(s, i + 1, <<>>)
         ELSE LinesFrom(s, i + 1, Append(cur, s[i]))
str_lines(s) == LinesFrom(s, 1, <<>>)

\* str::trim_start_matches and str::replace(_, "") for a pattern of one piece
RECURSIVE trim_start_matches(_, _)
trim_start_matches(s, p) ==
    IF s # <<>> /\ s[1] = p THEN trim_start_matches(Tail(s), p) ELSE s
remove_all(s, p) == SelectSeq(s, LAMBDA c : c # p)

\* ui.rs lines 175-219: one line of an assistant message is drawn.  Every line
\* gives one entry: its colour, "blank" for an empty Line, "nothing" when no
\* Line is pushed; the text is given without its indentation
draw_line(st, line) ==
    IF starts_with(line, <<"[RCLAW_USE_TOOL]">>)
    THEN [in_tool_result |-> FALSE,
          chat_text |-> Append(st.chat_text,
                               [style |-> "Magenta",
                                text |-> trim_start_matches(line, "[RCLAW_USE_TOOL]")])]
    ELSE IF starts_with(line, <<"[RCLAW_TOOL_RESULT]">>)
    THEN LET rest == trim_start_matches(line, "[RCLAW_TOOL_RESULT]")
             closed == contains(rest, <<"[RCLAW_END_RESULT]">>)
             content == IF closed THEN remove_all(rest, "[RCLAW_END_RESULT]") ELSE rest
         IN  [in_tool_result |-> ~closed,
              chat_text |-> Append(st.chat_text,
                                   IF content # <<>>
                                   THEN [style |-> "DarkGray", text |-> content]
                                   ELSE [style |-> "nothing", text |-> <<>>])]
    ELSE IF trim(line) = <<>>
    THEN [st EXCEPT !.chat_text = Append(@, [style |-> "blank", text |-> <<>>])]
    ELSE [st EXCEPT !.chat_text =
             Append(@, [style |-> IF st.in_tool_result THEN "DarkGray" ELSE "White",
                        text |-> line])]

\* ui.rs lines 173-220: the lines of an assistant message, drawn in order
RECURSIVE draw(_)
draw(ls) ==
    IF ls = <<>> THEN [in_tool_result |-> FALSE, chat_text |-> <<>>]
    ELSE draw_line(draw(SubSeq(ls, 1, Len(ls) - 1)), ls[Len(ls)])

\* main.rs lines 255-256 and ui.rs lines 137-142, 173-220: the transcript is
\* sent to the TUI as it was returned, pushed as an assistant message and drawn
DrawMessage ==
    /\ opc = "returned"
    /\ output.status = "success"
    /\ chat_text' = draw(str_lines(Unwrap(output.result))).chat_text
    /\ opc' = "drawn"
    /\ UNCHANGED <<exit_success, stderr, stdout, consumed, final_result, last_type, output>>
    /\ outOnly

SeqsUpTo(S, n) == UNION {[1..k -> S] : k \in 0..n}

\* the example of the specification, section 8
ExampleEvents == <<MsgHi, MsgThere, UseShellLs, ResultFile>>

\* what docker exec can have left behind when it has exited
ExchangeEnds ==
    LET someStdout == {<<>>, <<MsgHi>>, ExampleEvents}
        someStderr == {<<>>, <<LineDeprecation, LineFailure>>}
    IN  ([exit_success : {TRUE}, stderr : someStderr,
          stdout : SeqsUpTo(StdoutLines, MaxEvents) \cup {ExampleEvents}])
        \cup
        ([exit_success : BOOLEAN, stdout : someStdout,
          stderr : SeqsUpTo(StderrLines \cup {<<>>}, MaxStderrLines)])

\* no exchange has ended
OutIdle ==
    /\ opc = "idle"
    /\ exit_success = TRUE
    /\ stderr = <<>>
    /\ stdout = <<>>
    /\ consumed = <<>>
    /\ final_result = <<>>
    /\ last_type = ""
    /\ output = NoOutput
    /\ chat_text = <<>>

----------------------------------------------------------------------------
(* The interactive path of `start`: the TUI loop on the main thread        *)
(* (ui.rs, run_tui), the worker task (main.rs, lines 228-275) and the      *)
(* run_container_agent calls the worker puts on blocking threads.  The     *)
(* session is modelled while the TUI is open.                              *)

MaxRequests == 2      \* inputs the user submits

ReqIds == 1..MaxRequests

appOnly == UNCHANGED <<worldVars, schedVars, dockerVars, callVars, outVars, pipeVars, invocations>>

\* a call the worker has not been asked for
NoCall == [phase |-> "none", failed |-> FALSE, after_failure |-> FALSE]

\* a receive that waits for the response while a request is outstanding
recv_while_loading(chan) ==
    [returns |-> chan # <<>> \/ ~is_loading,
     msg |-> IF chan = <<>> THEN None ELSE Some(Head(chan))]

\* ui.rs line 135, Receiver::try_recv: returns at once, with the first message
\* of the channel or with none
try_recv(chan) ==
    [returns |-> TRUE, msg |-> IF chan = <<>> THEN None ELSE Some(Head(chan))]

\* ui.rs lines 135-146: the responses of the worker are taken from the channel
\* one by one; when there is none the loop goes on to draw and to poll the keys
UiDrain ==
    /\ upc = "responses"
    /\ LET r == try_recv(responses)
       IN  /\ r.returns
           /\ IF IsSome(r.msg)
              THEN /\ is_loading' = FALSE
                   /\ shown' = Append(shown, Unwrap(r.msg))
                   /\ responses' = Tail(responses)
                   /\ UNCHANGED upc
              ELSE /\ upc' = "keys"
                   /\ UNCHANGED <<is_loading, shown, responses>>
    /\ UNCHANGED <<requests, calls, answers, next_req>>
    /\ appOnly

\* ui.rs lines 348-362: Enter on a non-empty input: the text is shown, is_loading
\* is set and the input is sent to the worker, whether or not an earlier one is
\* still being worked on
UiSubmit ==
    /\ upc = "keys"
    /\ next_req <= MaxRequests
    /\ requests' = Append(requests, next_req)
    /\ calls' = [calls EXCEPT ![next_req].phase = "queued"]
    /\ is_loading' = TRUE
    /\ next_req' = next_req + 1
    /\ upc' = "responses"
    /\ UNCHANGED <<responses, answers, shown>>
    /\ appOnly

\* ui.rs lines 324-376: the poll of 50 ms ends without a key, or with a key
\* that sends nothing
UiOtherKey ==
    /\ upc = "keys"
    /\ upc' = "responses"
    /\ UNCHANGED <<requests, responses, calls, answers, is_loading, next_req, shown>>
    /\ appOnly

UiStep == UiDrain \/ UiSubmit \/ UiOtherKey

\* main.rs lines 231-252: the worker receives an input and hands the call of
\* run_container_agent to spawn_blocking; the handle is dropped and the worker
\* goes back to recv
WorkerRecv ==
    /\ requests # <<>>
    /\ LET r == Head(requests)
       IN  calls' = [calls EXCEPT ![r] =
                        [phase |-> "ensure", failed |-> FALSE,
                         after_failure |-> \E q \in ReqIds : calls[q].failed]]
    /\ requests' = Tail(requests)
    /\ UNCHANGED <<responses, answers, upc, is_loading, next_req, shown>>
    /\ appOnly

\* Result<ContainerOutput>
OkOutput(o) == [ok |-> TRUE, output |-> o]
ErrResult == [ok |-> FALSE, output |-> NoOutput]

\* container.rs lines 131-136: the output when docker run exited non-zero
CreateFailedOutput ==
    [status |-> "error", result |-> None, new_session_id |-> None,
     error |-> Some(<<"Failed", " ", "to", " ", "create", " ", "container", " ",
                      "rclaw-agent-singleton">>)]

\* what run_container_agent can return before docker exec is spawned, and after
EarlyResults == {OkOutput(CreateFailedOutput), ErrResult}
ExecResults ==
    {OkOutput(SuccessOutput(<<"Hi", " ", "there">>)), OkOutput(SuccessOutput(<<>>)),
     OkOutput(ErrorOutput(LineFailure)), ErrResult}

\* a closure that answers only when the call returned Ok
worker_response_ok_only(r, res) ==
    IF res.ok
    THEN IF IsSome(res.output.result)
         THEN Some([req |-> r, text |-> Unwrap(res.output.result)])
         ELSE IF IsSome(res.output.error)
         THEN Some([req |-> r, text |-> <<"Error:", " ">> \o Unwrap(res.output.error)])
         ELSE None
    ELSE None

\* main.rs lines 253-270: the WorkerEvent::Response the closure sends for what
\* run_container_agent returned, if it sends one
worker_response(r, res) ==
    IF res.ok
    THEN IF IsSome(res.output.result)
         THEN Some([req |-> r, text |-> Unwrap(res.output.result)])
         ELSE IF IsSome(res.output.error)
         THEN Some([req |-> r, text |-> <<"Error:", " ">> \o Unwrap(res.output.error)])
         ELSE None
    ELSE Some([req |-> r, text |-> <<"Container", " ", "Error:", " ", "e">>])

\* main.rs lines 253-270: run_container_agent has returned res to the closure
\* of request r
CallReturns(r, res) ==
    /\ calls' = [calls EXCEPT ![r].phase = "done",
                              ![r].failed = ~(res.ok /\ res.output.status = "success")]
    /\ LET m == worker_response(r, res)
       IN  IF IsSome(m)
           THEN /\ responses' = Append(responses, Unwrap(m))
                /\ answers' = [answers EXCEPT ![r] = Append(@, Unwrap(m).text)]
           ELSE UNCHANGED <<responses, answers>>
    /\ UNCHANGED <<requests, upc, is_loading, next_req, shown>>
    /\ appOnly

\* container.rs lines 61-145: the call of request r ends before docker exec
CallEndsEarly(r) ==
    /\ calls[r].phase = "ensure"
    /\ \E res \in EarlyResults : CallReturns(r, res)

\* container.rs lines 149-155: the call of request r opens its exec session
CallOpensExec(r) ==
    /\ calls[r].phase = "ensure"
    /\ calls' = [calls EXCEPT ![r].phase = "exec"]
    /\ UNCHANGED <<requests, responses, answers, upc, is_loading, next_req, shown>>
    /\ appOnly

\* container.rs lines 158-257: the exec session of request r ends
CallExecEnds(r) ==
    /\ calls[r].phase = "exec"
    /\ \E res \in ExecResults : CallReturns(r, res)

InteractiveCallStep ==
    \E r \in ReqIds : CallEndsEarly(r) \/ CallOpensExec(r) \/ CallExecEnds(r)

\* the steps the scheduler takes when its one active task is `every 0s`
AppSchedulerStep ==
    \/ Tick
    \/ TickReadFails
    \/ TickEnds
    \/ BeginEvaluation
    \/ CatchUpTest
    \/ CatchUpBody
    \/ RefreshNextRun
    \/ Fire
    \/ AgentReturns

\* nothing has been submitted
AppIdle ==
    /\ requests = <<>>
    /\ responses = <<>>
    /\ calls = [r \in ReqIds |-> NoCall]
    /\ answers = [r \in ReqIds |-> <<>>]
    /\ upc = "responses"
    /\ is_loading = FALSE
    /\ next_req = 1
    /\ shown = <<>>

CallInit ==
    /\ cpc = "idle"
    /\ needs_wait = FALSE
    /\ elapsed = 0
    /\ result = "none"
    /\ starts = 0
    /\ creates = 0
    /\ polls = 0
    /\ execs = 0
    /\ sent = 0
    /\ observed_ready = FALSE
    /\ entry_state = "none"
    /\ timed_out = FALSE
    /\ input = NoInput
    /\ addressed = {}
    /\ spawn_failed = FALSE

SchedInit ==
    /\ spc = "idle"
    /\ active_tasks = <<>>
    /\ task = NoTask
    /\ parsed_schedule = Invalid
    /\ now_utc = 0
    /\ calculated_next = 0
    /\ next_occurrence = None
    /\ tick_result = "none"
    /\ runs = {}
    /\ snapshot = {}
    /\ evaluated = {}
    /\ skipped = {}
    /\ written = {}
    /\ invoked = {}
    /\ fired = {}

Init ==
    /\ clock = 0
    /\ store \in {f \in [TaskIds -> UNION {InitialRows(i) : i \in TaskIds}] :
                    \A i \in TaskIds : f[i].id = i}
    /\ SchedInit
    /\ status = "absent"
    /\ health = "none"
    /\ containers = ContainersAt(status)
    /\ CallInit
    /\ OutIdle
    /\ AppIdle
    /\ PipeIdle
    /\ NoInvocations

Next == SchedulerStep \/ AdvanceClock

Spec == Init /\ [][Next]_vars

\* the tokio runtime keeps running the scheduler task, and time passes
FairSpec == Spec /\ WF_vars(SchedulerStep) /\ WF_vars(AdvanceClock)

\* the scheduler over a table whose task t1 was given a next_run from outside:
\* none, a text that is no timestamp, an early or a late instant
StoredNextRuns == {None, Some(Unreadable), Some(to_rfc3339(1)), Some(to_rfc3339(3))}

StoredInit ==
    /\ clock = 0
    /\ \E s \in Schedules, l \in {None, Some(to_rfc3339(0))}, n \in StoredNextRuns :
          store = [i \in TaskIds |->
                     IF i = "t1"
                     THEN [id |-> i, group_folder |-> "main", prompt |-> "p",
                           schedule |-> s, last_run |-> l, next_run |-> n,
                           status |-> "active"]
                     ELSE [id |-> i, group_folder |-> "main", prompt |-> "p",
                           schedule |-> Every1s, last_run |-> None, next_run |-> None,
                           status |-> "paused"]]
    /\ SchedInit
    /\ status = "absent"
    /\ health = "none"
    /\ containers = ContainersAt(status)
    /\ CallInit
    /\ OutIdle
    /\ AppIdle
    /\ PipeIdle
    /\ NoInvocations

StoredSpec == StoredInit /\ [][Next]_vars

\* another writer of the tasks table (a management operation, through
\* Db::add_task or its own connection) pauses an active task or edits its
\* prompt; the mutex of Db is held for one call only, so this can happen
\* between any two store calls of a tick
Management ==
    /\ \E i \in ActiveIds :
          \/ store' = [store EXCEPT ![i].status = "paused"]
          \/ /\ store[i].prompt = "p"
             /\ store' = [store EXCEPT ![i].prompt = "edited"]
    /\ UNCHANGED <<clock, schedVars>>
    /\ callIdle

\* the scheduler next to another writer of the tasks table
ManagedNext == Next \/ Management

ManagedSpec == StoredInit /\ [][ManagedNext]_vars

\* two calls side by side, from any state of the container
ConcInit ==
    /\ clock = 0
    /\ store = [i \in TaskIds |-> NoTask]
    /\ SchedInit
    /\ \E d \in DockerStates : status = d.status /\ health = d.health
    /\ containers = ContainersAt(status)
    /\ CallInit
    /\ OutIdle
    /\ AppIdle
    /\ PipeIdle
    /\ NoInvocations

ConcNext == ConcStep \/ ConcHealthChanges

ConcSpec == ConcInit /\ [][ConcNext]_vars

\* the controller on its own: any state of the container, calls one after another
CtlInit ==
    /\ clock = 0
    /\ store = [i \in TaskIds |-> NoTask]
    /\ SchedInit
    /\ \E d \in DockerStates : status = d.status /\ health = d.health
    /\ containers = ContainersAt(status)
    /\ CallInit
    /\ OutIdle
    /\ AppIdle
    /\ PipeIdle
    /\ NoInvocations

CtlNext == CallStep \/ HealthChanges \/ ContainerStops

CtlSpec == CtlInit /\ [][CtlNext]_vars

\* the characters the schedule strings of ParseInputs are made of
ScheduleChars == {"0", "1", "s", "d", "x", " ", "-"}
MaxBody == 3          \* the characters after "every ", at most

RECURSIVE Bodies(_)
Bodies(n) ==
    IF n = 0 THEN {<<>>}
    ELSE Bodies(n - 1) \cup {Append(b, c) : b \in Bodies(n - 1), c \in ScheduleChars}

\* amounts at the edges of i64 and of chrono's TimeDelta: i64::MAX, i64::MAX + 1,
\* a number of twenty digits, and one more than the seconds a TimeDelta holds
BigAmounts ==
    {I64MaxDigits,
     SubSeq(I64MaxDigits, 1, 18) \o <<"8">>,
     I64MaxDigits \o <<"0">>,
     SubSeq(MaxAmountDigits(<<"s">>), 1, 15) \o <<"6">>}

\* schedule strings that start with "every "
ParseInputs ==
    {EveryPrefix \o b : b \in Bodies(MaxBody)}
        \cup {EveryPrefix \o a \o u : a \in BigAmounts, u \in Units}

\* lines 42-89 on their own: a task with some schedule string is taken up
ParseInit ==
    /\ clock = 0
    /\ store = [i \in TaskIds |-> NoTask]
    /\ spc = "parse"
    /\ active_tasks = <<>>
    /\ \E s \in ParseInputs : task = [NoTask EXCEPT !.id = "t1", !.schedule = s,
                                                    !.status = "active"]
    /\ parsed_schedule = Invalid
    /\ now_utc = 0
    /\ calculated_next = 0
    /\ next_occurrence = None
    /\ tick_result = "none"
    /\ runs = {}
    /\ snapshot = {}
    /\ evaluated = {}
    /\ skipped = {}
    /\ written = {}
    /\ invoked = {}
    /\ fired = {}
    /\ status = "absent"
    /\ health = "none"
    /\ containers = ContainersAt(status)
    /\ CallInit
    /\ OutIdle
    /\ AppIdle
    /\ PipeIdle
    /\ NoInvocations

\* lines 42-89: the schedule string of the task is parsed
ParseSchedule ==
    /\ spc = "parse"
    /\ parsed_schedule' = parse_schedule(task.schedule)
    /\ spc' = "parsed"
    /\ UNCHANGED <<active_tasks, task, now_utc, calculated_next, next_occurrence,
                   tick_result, runs, snapshot, evaluated, skipped, written, invoked,
                   fired>>
    /\ UNCHANGED worldVars
    /\ callIdle

ParseSpec == ParseInit /\ [][ParseSchedule]_vars

\* one exchange on its own: the container is ready, the request has some
\* length and the child some program
ExchangeInit ==
    /\ clock = 0
    /\ store = [i \in TaskIds |-> NoTask]
    /\ SchedInit
    /\ status = "running"
    /\ health = "none"
    /\ containers = ContainersAt(status)
    /\ CallInit
    /\ OutIdle
    /\ AppIdle
    /\ xpc = "exec"
    /\ request_left \in 1..MaxRequest
    /\ stdin_closed = FALSE
    /\ stdin_pipe = 0
    /\ stdout_pipe = 0
    /\ stderr_pipe = 0
    /\ \E p \in Programs(MaxWrites) : child = [NoChild EXCEPT !.todo = p]
    /\ NoInvocations
    /\ stdout_read = 0
    /\ stderr_read = 0
    /\ xlog = <<>>

ExchangeNext == HostStep \/ ChildStep

ExchangeSpec == ExchangeInit /\ [][ExchangeNext]_vars

\* the thread of the call and the child both keep running
FairExchangeSpec == ExchangeSpec /\ WF_vars(HostStep) /\ WF_vars(ChildStep)

\* the end of an exchange on its own: whatever docker exec can have left behind
OutInit ==
    /\ clock = 0
    /\ store = [i \in TaskIds |-> NoTask]
    /\ SchedInit
    /\ status = "running"
    /\ health = "none"
    /\ containers = ContainersAt(status)
    /\ CallInit
    /\ opc = "exited"
    /\ \E e \in ExchangeEnds :
          /\ exit_success = e.exit_success
          /\ stderr = e.stderr
          /\ stdout = e.stdout
    /\ consumed = <<>>
    /\ final_result = <<>>
    /\ last_type = ""
    /\ output = NoOutput
    /\ chat_text = <<>>
    /\ AppIdle
    /\ PipeIdle
    /\ NoInvocations

OutNext == CheckExit \/ DecodeLine \/ ReturnSuccess \/ DrawMessage

OutSpec == OutInit /\ [][OutNext]_vars

\* `start`: the scheduler task, the TUI, the worker and its calls side by side
AppInit ==
    /\ clock = 0
    /\ store = [i \in TaskIds |->
                  [id |-> i, group_folder |-> "main", prompt |-> "p",
                   schedule |-> IF i = "t1" THEN Every0s ELSE Every1s,
                   last_run |-> None, next_run |-> None,
                   status |-> IF i = "t1" THEN "active" ELSE "paused"]]
    /\ SchedInit
    /\ status = "running"
    /\ health = "none"
    /\ containers = ContainersAt(status)
    /\ CallInit
    /\ OutIdle
    /\ AppIdle
    /\ PipeIdle
    /\ NoInvocations

AppNext == AppSchedulerStep \/ UiStep \/ WorkerRecv \/ InteractiveCallStep

AppSpec == AppInit /\ [][AppNext]_vars

\* the tokio runtime keeps running the scheduler task and the worker task, the
\* main thread keeps running the TUI loop; how long a call of
\* run_container_agent takes is not bounded
FairAppSpec ==
    AppSpec /\ WF_vars(AppSchedulerStep) /\ WF_vars(UiStep) /\ WF_vars(WorkerRecv)

----------------------------------------------------------------------------
(* Properties of the scheduler *)

ValidEveryActive(i) ==
    /\ store[i].status = "active"
    /\ ScheduleOf[store[i].schedule].kind = "every"
    /\ ScheduleOf[store[i].schedule].duration > 0

\* the due time the store holds for task i has arrived
DueArrived(i) ==
    LET n == ReadTimestamp(store[i].next_run)
    IN  IsSome(n) /\ Unwrap(n) <= clock

TickLoopKeepsRunning == []<>(spc = "idle" /\ tick_result = "ok")

\* C1: if the tick loop keeps running, a task that stays active with a valid
\* `every N<unit>` schedule, N > 0, is fired by some tick once the due time the
\* store holds for it has arrived.
C1_DueTaskEventuallyFired ==
    \A i \in TaskIds :
        (TickLoopKeepsRunning /\ []ValidEveryActive(i))
            => [](DueArrived(i) => <>(spc = "running" /\ task.id = i))

\* C5: for an accepted `every` schedule and a last_run at or before now, the
\* due-time computation returns, and what it returns is later than now.
C5_DueTimeReturnsInFuture ==
    (spc = "catchup_test" /\ Unwrap(ReadTimestamp(task.last_run)) <= now_utc)
        ~> (spc = "refresh" /\ IsSome(next_occurrence) /\ Unwrap(next_occurrence) > now_utc)

DueComputed == spc \in {"refresh", "due_check"}

\* C6: for an interval d > 0 and a last_run at or before now the due time is
\* last_run + k*d for the least k >= 1 that puts it after now, one slot with
\* now < due <= now + d; with no last_run it is now + d.
C6_CatchUpCollapses ==
    (DueComputed /\ parsed_schedule.kind = "every" /\ parsed_schedule.duration > 0)
        => LET d    == parsed_schedule.duration
               last == ReadTimestamp(task.last_run)
               due  == Unwrap(next_occurrence)
           IN  /\ IsSome(next_occurrence)
               /\ IF IsSome(last)
                  THEN /\ \E k \in 1..(now_utc + 1) :
                             /\ due = Unwrap(last) + k * d
                             /\ \A j \in 1..(k - 1) : Unwrap(last) + j * d <= now_utc
                       /\ now_utc < due
                       /\ due <= now_utc + d
                  ELSE due = now_utc + d

\* three intervals were missed and the due time is one slot
C6_Witness ==
    /\ DueComputed
    /\ parsed_schedule.kind = "every"
    /\ parsed_schedule.duration > 0
    /\ IsSome(ReadTimestamp(task.last_run))
    /\ IsSome(next_occurrence)
    /\ Unwrap(next_occurrence) >= Unwrap(ReadTimestamp(task.last_run)) + 3 * parsed_schedule.duration

\* C7: the due time of a cron schedule is absent or an occurrence of the
\* expression strictly after now.
C7_CronDueAfterNow ==
    (DueComputed /\ parsed_schedule.kind = "cron")
        => \/ next_occurrence = None
           \/ /\ Unwrap(next_occurrence) > now_utc
              /\ CronMatches(parsed_schedule.expr, Unwrap(next_occurrence))

\* a cron task was evaluated at an instant that is itself an occurrence
C7_Witness ==
    /\ DueComputed
    /\ parsed_schedule.kind = "cron"
    /\ IsSome(next_occurrence)
    /\ CronMatches(parsed_schedule.expr, now_utc)

\* C8: a task whose schedule does not parse is skipped: no store write, no
\* agent call, it stays active; and a tick that does so still evaluates every
\* other task it was given.
C8_InvalidScheduleSkipped ==
    /\ \A i \in skipped :
          /\ i \notin written
          /\ i \notin invoked
          /\ i \notin evaluated
          /\ store[i].status = "active"
    /\ (spc = "idle" /\ tick_result = "ok") => snapshot \subseteq (evaluated \cup skipped)

\* a valid task is being evaluated after an invalid one was skipped in the tick
C8_Witness ==
    /\ spc = "refresh"
    /\ skipped # {}
    /\ Cardinality(evaluated) = 1
    /\ ScheduleOf[store[CHOOSE i \in skipped : TRUE].schedule] = Invalid

\* C9: a run that failed consumes its slot like one that succeeded: last_run is
\* the time of the evaluation and next_run the next due time after it, both
\* in the store unless the store refused the write; and the tick goes on to
\* the tasks that remain.
C9_FailedRunConsumesSlot ==
    /\ \A r \in runs :
          r.outcome \in FailedOutcomes =>
             \/ spc = "idle" /\ tick_result = "err" /\ task.id = r.id
             \/ /\ store[r.id].last_run = Some(to_rfc3339(r.at))
                /\ store[r.id].next_run =
                      NextRunAfterRun(ScheduleOf[store[r.id].schedule], r.at)
                /\ r.id \in written
    /\ (spc = "idle" /\ tick_result = "ok") => snapshot \subseteq (evaluated \cup skipped)

\* after a run that failed, another task of the same tick is being evaluated
C9_Witness ==
    /\ spc = "refresh"
    /\ \E r \in runs : r.outcome \in FailedOutcomes /\ r.id # task.id

\* C10: an error confined to one task, a refused store write included, leaves
\* the other tasks of the tick evaluated.
C10_TaskErrorIsolated ==
    (spc = "idle" /\ tick_result \in {"ok", "err"}) => snapshot \subseteq (evaluated \cup skipped)

\* the tick that ended had an error: the read of the active tasks or a store
\* write failed (the tick returned Err), or a run of the agent failed
TickHadError ==
    \/ tick_result = "err"
    \/ \E r \in runs : r.outcome \in FailedOutcomes

\* C11: an error raised during a tick does not stop the tick loop: a tick that
\* returned Err leaves the scheduler waiting for the next tick, and after a tick
\* that ended with an error the next tick is delivered and evaluated.
C11_TickLoopSurvivesErrors ==
    /\ [](tick_result = "err" => spc = "idle")
    /\ (spc = "idle" /\ TickHadError) ~> (tick_result = "running" /\ spc = "loop")

\* a task is being evaluated by a tick that follows one which ran a task and
\* then failed to persist it
C11_Witness ==
    /\ spc = "refresh"
    /\ invoked = {}
    /\ \E i \in fired : store[i].last_run = None

\* C33: every tick evaluation terminates when the agent calls and the store
\* calls return: whatever schedule strings the active tasks hold, a tick that
\* has read the active tasks gets to its end, and the loop to its next wait
C33_TickEvaluationTerminates ==
    (tick_result = "running") ~> (spc = "idle" /\ tick_result \in {"ok", "err"})

\* the scheduler is done with the task it evaluated and goes to the next one
EvaluationOver == spc \in {"due_check", "running"} /\ spc' = "loop"

\* C37: when a tick is done with a task for which it computed a due time, the
\* next_run the store holds for the task is a timestamp later than the time of
\* that evaluation; and a write that is not the write-back of a run never puts
\* an earlier next_run into the store
C37_NextRunAheadAndMonotonic ==
    /\ [][EvaluationOver =>
            LET n == ReadTimestamp(store'[task.id].next_run)
            IN  IsSome(n) /\ Unwrap(n) > now_utc]_vars
    /\ [][\A i \in TaskIds :
            (spc # "running" /\ store'[i] # store[i]
                /\ IsSome(ReadTimestamp(store[i].next_run)))
              => /\ IsSome(ReadTimestamp(store'[i].next_run))
                 /\ Unwrap(ReadTimestamp(store'[i].next_run))
                       >= Unwrap(ReadTimestamp(store[i].next_run))]_vars

\* the scheduler writes a row: the refresh of next_run or the write-back of a run
SchedulerWrites == spc \in {"refresh", "running"} /\ spc' # spc /\ store' # store

\* C34: a write of the scheduler does not lose what another writer changed in
\* the same row since the tick read it: the status and the prompt the store
\* held before the write are the ones it holds after it
C34_WriteBackKeepsOtherChanges ==
    [][SchedulerWrites =>
          /\ store'[task.id].status = store[task.id].status
          /\ store'[task.id].prompt = store[task.id].prompt]_vars

\* C25: a tick calls the agent for a task only when get_active_tasks returned
\* the task to it, its schedule parsed and the due time computed for it is not
\* later than the now of that evaluation; a task whose due time is later than
\* that is not fired.
C25_FiresOnlyWhenDue ==
    /\ [](/\ invoked \subseteq (snapshot \cap evaluated)
          /\ \A i \in invoked : ScheduleOf[store[i].schedule] # Invalid
          /\ spc = "running" =>
                /\ task.id \in invoked
                /\ task.status = "active"
                /\ IsSome(next_occurrence)
                /\ Unwrap(next_occurrence) <= now_utc)
    /\ [][(spc = "due_check" /\ Unwrap(next_occurrence) > now_utc)
             => (spc' # "running" /\ invoked' = invoked /\ fired' = fired)]_vars

\* a task is fired in a tick that has left another one alone, whose due time
\* had not come
C25_Witness ==
    /\ spc = "running"
    /\ Unwrap(next_occurrence) = now_utc
    /\ evaluated \ invoked # {}
\* the next_run the claim asks for after a run decided at now
DueAfter(p, now) ==
    IF p.kind = "every" THEN Some(to_rfc3339(now + p.duration))
    ELSE IF \E t \in (now + 1)..(now + 2) : CronMatches(p.expr, t)
         THEN Some(to_rfc3339(CHOOSE t \in (now + 1)..(now + 2) :
                                 /\ CronMatches(p.expr, t)
                                 /\ \A u \in (now + 1)..(t - 1) : ~CronMatches(p.expr, u)))
         ELSE None

\* C26: when a fire has completed, the row of the task is written once, with
\* last_run the now of the evaluation that decided the fire and next_run the
\* due time that follows it (last_run + interval for `every`, the next
\* occurrence after it for cron); the store holds both for the rest of the tick.
C26_FireSetsLastAndNextRun ==
    /\ [][(spc = "running" /\ spc' = "loop") =>
             /\ store' = [store EXCEPT
                             ![task.id].last_run = Some(to_rfc3339(now_utc)),
                             ![task.id].next_run = DueAfter(parsed_schedule, now_utc)]
             /\ written' = written \cup {task.id}]_vars
    /\ [](\A r \in runs :
             \/ spc = "idle" /\ tick_result = "err" /\ task.id = r.id
             \/ /\ store[r.id].last_run = Some(to_rfc3339(r.at))
                /\ store[r.id].next_run = DueAfter(ScheduleOf[store[r.id].schedule], r.at))

\* the run of a task took time, and the store holds as its last_run the time
\* at which the fire was decided
C26_Witness ==
    /\ spc = "loop"
    /\ \E r \in runs :
          /\ r.at < clock
          /\ r.id \in written
          /\ store[r.id].last_run = Some(to_rfc3339(r.at))
\* C27: when a task has been evaluated and has a due time, the next_run the
\* store holds for it is overwritten with that due time exactly when it is
\* absent, no readable timestamp, or earlier than the due time; otherwise the
\* step writes nothing; and the step neither changes last_run nor calls the
\* agent.
C27_RefreshWritesOnlyWhenStale ==
    [][(spc = "refresh" /\ IsSome(next_occurrence) /\ spc' # "refresh") =>
          LET due    == Unwrap(next_occurrence)
              stored == store[task.id].next_run
              stale  == \/ stored = None
                        \/ ~Unwrap(stored).valid
                        \/ Unwrap(stored).t < due
          IN  /\ IF stale
                 THEN \/ /\ store' = [store EXCEPT ![task.id].next_run = Some(to_rfc3339(due))]
                         /\ written' = written \cup {task.id}
                      \/ store' = store /\ tick_result' = "err"
                 ELSE store' = store /\ written' = written
              /\ store'[task.id].last_run = store[task.id].last_run
              /\ invoked' = invoked
              /\ fired' = fired
              /\ spc' # "running"]_vars

\* the step has left alone a next_run that is later than the due time
C27_Witness ==
    /\ spc = "due_check"
    /\ task.id \notin written
    /\ IsSome(ReadTimestamp(store[task.id].next_run))
    /\ Unwrap(ReadTimestamp(store[task.id].next_run)) > Unwrap(next_occurrence)
\* the scheduler is at work on the task it took from the rows of the tick
AtTask == spc \in {"catchup_test", "catchup_body", "refresh", "due_check", "running"}

\* C28: a tick works on the tasks whose status was active when it read the
\* table and on no other; the scheduler removes no row; and a row it writes has
\* the id, group_folder, prompt, schedule and status of the row it read in that
\* tick, so that only last_run and next_run can differ.
C28_WritesKeepTheTask ==
    /\ [](/\ DOMAIN store = TaskIds
          /\ \A i \in TaskIds : store[i].id = i
          /\ (evaluated \cup skipped \cup invoked \cup written) \subseteq snapshot
          /\ \A k \in 1..Len(active_tasks) : active_tasks[k].status = "active"
          /\ AtTask => (task.status = "active" /\ task.id \in snapshot))
    /\ [][(spc = "idle" /\ spc' = "loop") =>
             snapshot' = {i \in TaskIds : store[i].status = "active"}]_vars
    /\ [][store' # store =>
             /\ AtTask
             /\ \A j \in TaskIds \ {task.id} : store'[j] = store[j]
             /\ store'[task.id].id = task.id
             /\ store'[task.id].group_folder = task.group_folder
             /\ store'[task.id].prompt = task.prompt
             /\ store'[task.id].schedule = task.schedule
             /\ store'[task.id].status = task.status]_vars

\* a tick has written the row of a task after its run, and has not touched
\* the paused task of the table
C28_Witness ==
    /\ spc = "loop"
    /\ \E r \in runs : r.id \in written /\ store[r.id].last_run = Some(to_rfc3339(r.at))
    /\ \E i \in TaskIds : store[i].status = "paused" /\ i \notin snapshot
\* the tasks whose call of the agent has not returned
RunsPending == {i \in invoked : \A r \in runs : r.id # i}

\* the run of task i has been written to the store
RunPersisted(i) ==
    /\ i \in written
    /\ \E r \in runs : r.id = i /\ store[i].last_run = Some(to_rfc3339(r.at))

\* C29: ticks do not overlap and the tasks of a tick are handled one after
\* another: at most one call of the agent is pending; the next task of the tick
\* is taken up only when the call of every task fired before it has returned
\* and its last_run and next_run are in the store; and a tick starts only when
\* the tick before it has ended.
C29_TicksAndTasksSequential ==
    /\ [](/\ Cardinality(RunsPending) <= 1
          /\ RunsPending # {} => (spc = "running" /\ RunsPending = {task.id}))
    /\ [][((evaluated' \cup skipped') \ (evaluated \cup skipped) # {}) =>
             \A i \in invoked : RunPersisted(i)]_vars
    /\ [][(tick_result' = "running" /\ tick_result # "running") =>
             /\ spc = "idle"
             /\ active_tasks = <<>>
             /\ RunsPending = {}]_vars

\* a task is evaluated after the run of another task of the tick has
\* succeeded and has been written to the store
C29_Witness ==
    /\ spc = "refresh"
    /\ \E r \in runs :
          /\ r.outcome = "success"
          /\ r.id # task.id
          /\ RunPersisted(r.id)

----------------------------------------------------------------------------
(* Properties of the controller *)

\* C2: a request is written to the container only after it has been seen
\* Ready: running and healthy, or running with no health check.
C2_RequestOnlyWhenReady == sent > 0 => observed_ready

\* C3: when the container this call started or created is not ready before
\* the timeout, the polling stops, the call fails with an error, no exec
\* session is opened, no request is sent, and start or create was issued once.
C3_TimeoutFailsWithoutRequest ==
    /\ polls <= ReadyTimeoutMs \div PollIntervalMs
    /\ timed_out =>
          /\ cpc \in {"done", "idle"}
          /\ result = "err"
          /\ execs = 0
          /\ sent = 0
          /\ starts + creates = 1

\* the wait timed out after the largest number of polls
C3_Witness ==
    /\ timed_out
    /\ polls = ReadyTimeoutMs \div PollIntervalMs
    /\ entry_state = "stopped"

\* C4: a call that found the container stopped, and a poll of which within
\* the timeout finds it healthy, or running with no health check, leaves the
\* wait as Ready; from there it opens the exec session and writes its request,
\* unless spawning docker exec or the write fails.
C4_StoppedThenReadyProceeds ==
    /\ [][(/\ cpc = "wait"
           /\ entry_state = "stopped"
           /\ WithinTimeout(elapsed)
           /\ BackendReady
           /\ polls' = polls + 1)
             => (cpc' = "exec" /\ observed_ready')]_vars
    /\ []((entry_state = "stopped" /\ observed_ready)
             => (cpc \in {"exec", "write"} \/ sent = 1 \/ result = "err"))

\* the container was stopped, was not ready at the first polls, and the request was sent
C4_Witness ==
    /\ entry_state = "stopped"
    /\ observed_ready
    /\ polls >= 3
    /\ sent = 1
    /\ cpc = "read_stdout"

\* C23: every call, a scheduled, an interactive and a one-shot one alike and
\* whatever its group folder, names the one container rclaw-agent-singleton in
\* its docker commands; the daemon never holds more than one container of the
\* controller; and a call opens at most one exec session and writes at most
\* one request.
C23_OneNamedBackend ==
    /\ addressed \subseteq {"rclaw-agent-singleton"}
    /\ Cardinality(containers) <= 1
    /\ execs <= 1
    /\ sent <= 1

\* a one-shot call for another group than main found no container, created
\* it and has written its request
C23_Witness ==
    /\ input = RunInput("family")
    /\ entry_state = "absent"
    /\ creates = 1
    /\ sent = 1
    /\ containers = {"rclaw-agent-singleton"}

\* C24: a docker command that cannot be spawned makes the call return an Err,
\* never a ContainerOutput with status error, which is what a non-zero exit of
\* the agent gives; and it is not taken for a state of the container.
C24_TransportErrorIsDistinct ==
    /\ spawn_failed => (cpc \in {"done", "idle"} /\ result = "err")
    /\ result = "error" => ~spawn_failed

\* docker run exited non-zero and the call returned its error output
CreateFailed == entry_state = "absent" /\ result = "error" /\ execs = 0

\* C30: the lifecycle commands of a call follow the state its first inspect
\* found.  Running: no start, no create, no poll.  Stopped: one start, no
\* create, then the polls.  Absent: one create, no start, then the polls, and a
\* create that failed ends the call with an error output, with no poll and no
\* request.  "One" and "then the polls" are for the calls whose docker
\* commands could all be spawned.
C30_LifecycleFollowsObservedState ==
    /\ entry_state = "running" => (starts = 0 /\ creates = 0 /\ polls = 0)
    /\ entry_state = "stopped" => (starts <= 1 /\ creates = 0 /\ (polls > 0 => starts = 1))
    /\ entry_state = "absent" => (creates <= 1 /\ starts = 0 /\ (polls > 0 => creates = 1))
    /\ CreateFailed => (cpc \in {"done", "idle"} /\ creates = 1 /\ polls = 0 /\ sent = 0)
    /\ (cpc = "done" /\ ~spawn_failed) =>
          /\ entry_state = "stopped" => (starts = 1 /\ polls >= 1)
          /\ entry_state = "absent" => (creates = 1 /\ (polls >= 1 \/ CreateFailed))

\* the call found no container and its docker run exited non-zero
C30_Witness ==
    /\ cpc = "done"
    /\ CreateFailed
    /\ ~spawn_failed
    /\ status = "absent"
    /\ polls = 0

----------------------------------------------------------------------------
(* Properties of the interactive path *)

\* the requests whose run_container_agent call is running
InteractiveInFlight == {r \in ReqIds : calls[r].phase \in {"ensure", "exec"}}

\* C13: at most one request of the worker is in flight: a second request is
\* not handed to run_container_agent before the first one has been answered.
C13_OneRequestInFlight == Cardinality(InteractiveInFlight) <= 1

\* C14: no two exec sessions are open at once, and the calls of
\* run_container_agent, the scheduler's fire and the interactive ones counted
\* together, are serialized.
C14_InvocationsSerialized ==
    /\ Cardinality({r \in ReqIds : calls[r].phase = "exec"}) <= 1
    /\ Cardinality(InteractiveInFlight) + (IF spc = "running" THEN 1 ELSE 0) <= 1

IsFailureText(t) ==
    \/ starts_with(t, <<"Error:", " ">>)
    \/ starts_with(t, <<"Container", " ", "Error:", " ">>)

\* C16: every request the worker accepted gets exactly one response, sent when
\* its call returns: the transcript, or a failure message when the call failed;
\* and a failed call leaves the worker receiving.
C16_ExactlyOneResponse ==
    /\ \A r \in ReqIds :
          /\ Len(answers[r]) <= 1
          /\ calls[r].phase = "done" <=> Len(answers[r]) = 1
          /\ calls[r].phase = "done" => (calls[r].failed <=> IsFailureText(answers[r][1]))
    /\ requests # <<>> => ENABLED WorkerRecv

\* a request that the worker accepted after a call had failed has failed too
\* and has its one response
C16_Witness ==
    \E r \in ReqIds :
        /\ calls[r].after_failure
        /\ calls[r].phase = "done"
        /\ calls[r].failed
        /\ Len(answers[r]) = 1

----------------------------------------------------------------------------
(* Properties of the end of an exchange *)

\* C12: an exchange is reported as a failure exactly when docker exec exited
\* non-zero and the stderr left after the noise filter is not empty; a non-zero
\* exit with nothing but noise, or nothing at all, on stderr is not a failure.
C12_FailureIffRealDiagnostics ==
    opc = "returned" =>
        (output.status = "error" <=> (~exit_success /\ filtered_stderr(stderr) # <<>>))

\* the line that is decoded next
NextLine == Head(stdout)
Decoding(type) == opc = "decode" /\ stdout # <<>> /\ NextLine.json /\ NextLine.type = type

\* the separator the rule of the specification asks for before a marker
SeparatorDue(transcript) ==
    IF transcript # <<>> /\ ~ends_with(transcript, Separator) THEN Separator ELSE <<>>

\* C17, as claimed: the example decodes to
\* "Hi there\n\n[TOOL_USE]shell (ls)\n\n[TOOL_RESULT]file.txt[END_RESULT]".
C17_ExampleTranscript ==
    (opc = "returned" /\ consumed = ExampleEvents) =>
        output.result =
            Some(<<"Hi", " ", "there", "\n", "\n", "[TOOL_USE]", "shell", " ", "(", "ls", ")",
                   "\n", "\n", "[TOOL_RESULT]", "file.txt", "[END_RESULT]">>)

\* C17, amended: the example decodes to
\* "Hi there\n\n[RCLAW_USE_TOOL]shell (ls)\n\n[RCLAW_TOOL_RESULT]file.txt[RCLAW_END_RESULT]".
C17_ExampleTranscriptRclaw ==
    (opc = "returned" /\ consumed = ExampleEvents) =>
        output.result =
            Some(<<"Hi", " ", "there", "\n", "\n", "[RCLAW_USE_TOOL]", "shell", " ", "(", "ls",
                   ")", "\n", "\n", "[RCLAW_TOOL_RESULT]", "file.txt", "[RCLAW_END_RESULT]">>)

\* the example has been decoded and returned
C17_Witness == opc = "returned" /\ consumed = ExampleEvents /\ output.status = "success"

\* the unit emitted last by the lines decoded so far: "text" for an assistant
\* fragment, "marker" for a tool_use or tool_result block, "none"
RECURSIVE PrevUnit(_)
PrevUnit(lines) ==
    IF lines = <<>> THEN "none"
    ELSE LET l == lines[Len(lines)]
         IN  IF l.json /\ l.type = "message" /\ l.role = Some("assistant") /\ IsSome(l.content)
             THEN "text"
             ELSE IF l.json /\ (l.type = "tool_use" \/ (l.type = "tool_result" /\ IsSome(l.output)))
             THEN "marker"
             ELSE PrevUnit(SubSeq(lines, 1, Len(lines) - 1))

\* C18: an assistant fragment is appended with no separator when the unit
\* emitted before it was assistant text or nothing, and after exactly one
\* blank-line separator when it was a tool_use or tool_result marker; a message
\* of another role adds nothing and does not change the previous unit.
C18_FragmentSeparation ==
    [][Decoding("message") =>
          IF NextLine.role = Some("assistant")
          THEN IsSome(NextLine.content) =>
                  /\ final_result' =
                        final_result
                          \o (IF PrevUnit(consumed) = "marker" THEN Separator ELSE <<>>)
                          \o Unwrap(NextLine.content)
                  /\ PrevUnit(consumed') = "text"
          ELSE /\ final_result' = final_result
               /\ last_type' = last_type
               /\ PrevUnit(consumed') = PrevUnit(consumed)]_vars

\* a fragment was appended after a marker and a message of another role
C18_Witness ==
    /\ opc = "decode"
    /\ consumed = <<UseRead, MsgUser, MsgHi>>

\* the marker of a tool_use that names its tool, with the given opening text
UseMarker(open, line) ==
    <<open>> \o Unwrap(line.tool_name)
      \o (IF IsSome(line.command)
          THEN <<" ", "(">> \o Unwrap(line.command) \o <<")">>
          ELSE <<>>)

\* C19, as claimed: a tool_use emits `[TOOL_USE]<name>`, or `[TOOL_USE]<name>
\* (<command>)` when there is a command, after a blank-line separator exactly
\* when the transcript is non-empty and does not end with one.
C19_ToolUseMarker ==
    [][(Decoding("tool_use") /\ IsSome(NextLine.tool_name)) =>
          final_result' = final_result \o SeparatorDue(final_result)
                            \o UseMarker("[TOOL_USE]", NextLine)]_vars

\* C19, amended: the same with the marker `[RCLAW_USE_TOOL]`.
C19_ToolUseMarkerRclaw ==
    [][(Decoding("tool_use") /\ IsSome(NextLine.tool_name)) =>
          final_result' = final_result \o SeparatorDue(final_result)
                            \o UseMarker("[RCLAW_USE_TOOL]", NextLine)]_vars

\* a tool_use with a command was decoded after assistant text
C19_Witness ==
    /\ opc = "decode"
    /\ consumed = <<MsgHi, UseShellLs>>
    /\ last_type = "tool_use"

\* the block of a tool_result, with the given opening and closing texts
ResultBlock(open, line, close) == <<open>> \o Unwrap(line.output) \o <<close>>

\* C20, as claimed: a tool_result with a payload emits
\* `[TOOL_RESULT]<payload>[END_RESULT]` under the separator rule of tool_use, and
\* a stream of one tool_result alone decodes to that block and nothing else.
C20_ToolResultBlock ==
    /\ [][(Decoding("tool_result") /\ IsSome(NextLine.output)) =>
             final_result' = final_result \o SeparatorDue(final_result)
                               \o ResultBlock("[TOOL_RESULT]", NextLine, "[END_RESULT]")]_vars
    /\ []((opc = "returned" /\ consumed = <<ResultFile>>) =>
             output.result = Some(ResultBlock("[TOOL_RESULT]", ResultFile, "[END_RESULT]")))

\* C20, amended: the same with the markers `[RCLAW_TOOL_RESULT]` and
\* `[RCLAW_END_RESULT]`.
C20_ToolResultBlockRclaw ==
    /\ [][(Decoding("tool_result") /\ IsSome(NextLine.output)) =>
             final_result' = final_result \o SeparatorDue(final_result)
                               \o ResultBlock("[RCLAW_TOOL_RESULT]", NextLine,
                                              "[RCLAW_END_RESULT]")]_vars
    /\ []((opc = "returned" /\ consumed = <<ResultFile>>) =>
             output.result =
                Some(ResultBlock("[RCLAW_TOOL_RESULT]", ResultFile, "[RCLAW_END_RESULT]")))

\* a stream of one tool_result alone has been decoded and returned
C20_Witness ==
    /\ opc = "returned"
    /\ consumed = <<ResultFile>>
    /\ output.status = "success"

\* a record the decoder has a rule for
IsRecognised(line) == line.json /\ line.type \in {"message", "tool_use", "tool_result"}

\* C21: lines that are no JSON and records of another type do not stop the
\* decoding and do not change its result: what has been decoded is what the
\* same lines without them decode to, and a stream with no recognised record,
\* the empty one included, gives the empty transcript.
C21_SkippedLinesChangeNothing ==
    LET kept == SelectSeq(consumed, IsRecognised)
    IN  /\ opc = "decode" =>
              /\ [final_result |-> final_result, last_type |-> last_type] = decode(kept)
              /\ stdout # <<>> => ENABLED DecodeLine
        /\ (opc = "returned" /\ output.status = "success") =>
              /\ output.result = Some(trim(decode(kept).final_result))
              /\ kept = <<>> => output.result = Some(<<>>)

\* a line that is skipped stood between a tool_use and an assistant fragment
C21_Witness ==
    /\ opc = "returned"
    /\ Len(consumed) = 3
    /\ consumed[1] = UseRead
    /\ ~IsRecognised(consumed[2])
    /\ consumed[3] = MsgHi
    /\ output.status = "success"

\* the lines of the transcript that was returned
TranscriptLines == str_lines(Unwrap(output.result))

IsMarkerLine(l) ==
    starts_with(l, <<"[RCLAW_USE_TOOL]">>) \/ starts_with(l, <<"[RCLAW_TOOL_RESULT]">>)

\* line k is text that follows the end marker of the tool_result block that
\* was opened last before it
FollowsEndMarker(ls, k) ==
    /\ ~IsMarkerLine(ls[k])
    /\ trim(ls[k]) # <<>>
    /\ \E j \in 1..(k - 1) :
          /\ starts_with(ls[j], <<"[RCLAW_TOOL_RESULT]">>)
          /\ \A m \in (j + 1)..(k - 1) : ~IsMarkerLine(ls[m])
          /\ \E e \in j..(k - 1) : contains(ls[e], <<"[RCLAW_END_RESULT]">>)

\* C22: in the chat view, whatever the payload of a tool_result, one of several
\* lines included, the lines that follow its end marker are drawn as normal
\* assistant text, not as part of the tool result.
C22_TextAfterEndMarkerIsNormal ==
    opc = "drawn" =>
        \A k \in 1..Len(TranscriptLines) :
            FollowsEndMarker(TranscriptLines, k) => chat_text[k].style = "White"

----------------------------------------------------------------------------
(* Properties of an exchange over the pipes *)

\* C31: the steps of an exchange that are over are an initial part of: exec
\* opened, request written, input closed, stdout read to its end, stderr read
\* to its end, exit status awaited; and while the exit status is awaited, and
\* after, neither pipe holds unread bytes and the child has none left to write
C31_ExchangeStepsInOrder ==
    /\ Len(xlog) <= Len(ExchangeOrder)
    /\ xlog = SubSeq(ExchangeOrder, 1, Len(xlog))
    /\ xpc \in {"wait", "done"} =>
          /\ stdout_pipe = 0
          /\ stderr_pipe = 0
          /\ child.todo = <<>>
          /\ stdin_closed
          /\ request_left = 0
          /\ Len(xlog) >= 5

\* an exchange that is over, with output read from both channels
C31_Witness ==
    /\ xpc = "done"
    /\ xlog = ExchangeOrder
    /\ stdout_read > 0
    /\ stderr_read > 0

\* C36: an exchange cannot deadlock: whatever the child writes to stdout and
\* stderr and in whatever order, the call gets to the end of child.wait()
C36_ExchangeCompletes == <>(xpc = "done")

----------------------------------------------------------------------------
(* Properties of the schedule parser *)

\* the token is a non-empty run of decimal digits and then one of s, m, h, d
IsDigitsThenUnit(tok) ==
    /\ Len(tok) >= 2
    /\ \A k \in 1..(Len(tok) - 1) : tok[k] \in {"0", "1", "2", "3", "4", "5", "6", "7", "8", "9"}
    /\ tok[Len(tok)] \in {"s", "m", "h", "d"}

\* two whitespace-separated tokens, the second an amount and a unit
WellFormedEvery(s) ==
    LET parts == split_whitespace(s)
    IN  Len(parts) = 2 /\ IsDigitsThenUnit(parts[2])

\* the digits of the amount of a well-formed every schedule, without leading zeros
AmountDigits(s) ==
    LET tok == split_whitespace(s)[2]
    IN  StripZeros(SubSeq(tok, 1, Len(tok) - 1))

UnitOf(s) ==
    LET tok == split_whitespace(s)[2]
    IN  <<tok[Len(tok)]>>

Accepted == spc = "parsed" /\ parsed_schedule # Invalid
Rejected == spc = "parsed" /\ parsed_schedule = Invalid

\* C32, as claimed: a schedule string that starts with "every " is accepted
\* exactly when it has two tokens and the second is a non-empty run of digits
\* followed by one of the units s, m, h, d; every other one is rejected
C32_EveryAcceptedIffWellFormed ==
    spc = "parsed" => (Accepted <=> WellFormedEvery(task.schedule))

\* C32, amended: ... and the digits are a number of at most i64::MAX
C32_EveryAcceptedIffWellFormedI64 ==
    spc = "parsed" =>
        (Accepted <=> (/\ WellFormedEvery(task.schedule)
                       /\ DigitsLeq(AmountDigits(task.schedule), I64MaxDigits)))

\* a well-formed schedule whose amount is i64::MAX + 1 has been rejected
C32_Witness ==
    /\ Rejected
    /\ WellFormedEvery(task.schedule)
    /\ AmountDigits(task.schedule) = SubSeq(I64MaxDigits, 1, 18) \o <<"8">>

\* the amount of a well-formed every schedule is more than a duration of its
\* unit can hold
Oversized(s) ==
    WellFormedEvery(s) /\ ~DigitsLeq(AmountDigits(s), MaxAmountDigits(UnitOf(s)))

\* C38: an every schedule whose amount is too large for a duration in its unit
\* is rejected as invalid, and not taken as another interval
C38_OversizedAmountRejected ==
    (spc = "parsed" /\ Oversized(task.schedule)) => Rejected

----------------------------------------------------------------------------
(* Properties of calls that run at the same time *)

BothSawAbsent == \A c \in CallIds : invocations[c].entry_state = "absent"

\* C35: when two calls that run at the same time both found no container,
\* neither fails on its docker run, one container is created by one of them,
\* and both have gone through the wait for readiness when they are done
C35_ConcurrentCreatesBothProceed ==
    BothSawAbsent =>
        /\ \A c \in CallIds : invocations[c].result # "create_failed"
        /\ Cardinality({c \in CallIds : invocations[c].created}) <= 1
        /\ \A c \in CallIds : invocations[c].pc = "done" => invocations[c].polls >= 1

=============================================================================
